---- MODULE Spec2Model ----
(***************************************************************************)
(* Provider orchestration engine of ARQV30 Enhanced v3.0:                  *)
(*   services/enhanced_ai_manager.py      (generation providers, tool loop)*)
(*   services/real_search_orchestrator.py (search credential pools)        *)
(*   services/visual_content_capture.py   (Serper image-search key pool)   *)
(* One generation call is a stack of coroutine frames.  A step of the      *)
(* model runs from one awaited provider response to the next suspension    *)
(* point, as asyncio runs the code between two awaits without interleaving.*)
(***************************************************************************)
EXTENDS Integers, Sequences, FiniteSets, TLC

\* ------------------------------------------------------------------ bounds
MaxKeys == 2          \* largest OpenRouter credential pool drawn by Init
MaxIterations == 3    \* largest max_search_iterations a caller passes
MaxCalls == 2         \* generation calls per behaviour
MaxDepth == 2         \* nested generate_text frames before RecursionError
MaxSearchKeys == 2    \* largest search-provider credential pool drawn by Init
MaxKeyCalls == 4      \* get_next_api_key calls recorded per pool (SpecKeys)
MaxPool == 3          \* largest pool drawn by SpecKeys
MaxPriority == 3      \* priorities drawn by SpecSel
MaxProviders == 3     \* descriptors in a registry drawn by SpecSel
MaxResults == 1       \* records one search adapter returns (SpecSearch)
MaxSearches == 2      \* search calls on one orchestrator (SpecCalls)
MaxDirectCalls == 1   \* get_next_api_key calls per provider outside a search (SpecCalls)
MaxMetric == 2        \* metrics run over -MaxMetric..MaxMetric units (SpecScore)
MaxEnvSuffix == 4     \* largest numbered key the environment may define (SpecLoad)
MaxWebLen == 11       \* longest web_results handed to the formatter (SpecFormat)
MaxSectionLen == 6    \* longest of its other lists
MaxViralLen == 15     \* longest patterned list handed to _identify_viral_content (SpecViral)
MaxSmallLen == 3      \* longest list of it drawn record by record
MaxClock == 2         \* seconds the clock runs through (SpecFiles)
MaxWrites == 3        \* session files written in one behaviour

\* ------------------------------------------------- generation providers
GROK == "openrouter_grok"
ORGEMINI == "openrouter_gemini"
GEMINI == "gemini"
GROQ == "groq"
OPENAI == "openai"
None == "None"

ORProviders == {GROK, ORGEMINI}
GenProviders == {GROK, ORGEMINI, GEMINI, GROQ, OPENAI}

\* self.providers is a dict filled in this order by _initialize_providers
DeclOrder == <<GROK, ORGEMINI, GEMINI, GROQ, OPENAI>>

Priority(p) ==
  CASE p = GROK -> 1 [] p = ORGEMINI -> 2 [] p = GEMINI -> 3
    [] p = GROQ -> 4 [] p = OPENAI -> 5

SupportsTools(p) == p # GROQ

InitiallyAvailable(p) == p # GROQ

\* the descriptors of the configured providers, in declaration order
Registry(conf, av) ==
  LET all == [i \in 1..Len(DeclOrder) |->
                [name |-> DeclOrder[i], priority |-> Priority(DeclOrder[i]),
                 available |-> av[DeclOrder[i]],
                 supports_tools |-> SupportsTools(DeclOrder[i])]]
      Keep(d) == d.name \in conf
  IN SelectSeq(all, Keep)

\* _get_best_provider, the filter of lines 205-215
PassesFilter(d, require_tools) ==
  /\ d.available
  /\ ~(require_tools /\ ~d.supports_tools /\ d.name # "openrouter")

\* available.sort(key=priority) is stable: the first of the lowest priority
FirstByPriorityMax(s) ==
  LET idx == CHOOSE i \in 1..Len(s) :
               /\ \A j \in 1..Len(s) : s[i].priority >= s[j].priority
               /\ \A j \in 1..(i-1) : s[j].priority # s[i].priority
  IN s[idx].name

FirstByPriority(s) ==
  LET idx == CHOOSE i \in 1..Len(s) :
               /\ \A j \in 1..Len(s) : s[i].priority <= s[j].priority
               /\ \A j \in 1..(i-1) : s[j].priority # s[i].priority
  IN s[idx].name

GetBestProviderNoRetry(provs, require_tools) ==
  LET Keep(d) == PassesFilter(d, require_tools)
      available == SelectSeq(provs, Keep)
  IN IF available # <<>> THEN FirstByPriority(available) ELSE None

RECURSIVE GetBestProvider(_, _)
GetBestProvider(provs, require_tools) ==
  LET Keep(d) == PassesFilter(d, require_tools)
      available == SelectSeq(provs, Keep)
  IN IF available # <<>> THEN FirstByPriority(available)
     ELSE IF require_tools THEN GetBestProvider(provs, FALSE)
     ELSE None

\* ------------------------------------------------------ search providers
\* the providers _load_all_api_keys reads from the environment
SearchProviders ==
  {"FIRECRAWL", "JINA", "GOOGLE", "EXA", "SERPER", "YOUTUBE", "SUPADATA", "X"}

\* the adapters execute_massive_real_search launches when the provider has keys
LaunchedProviders == {"FIRECRAWL", "JINA", "GOOGLE", "EXA", "SERPER", "YOUTUBE"}

VARIABLES
  providers,             \* names configured in EnhancedAIManager.providers
  total_keys,            \* len(clients) of the two OpenRouter providers
  available,             \* provider["available"]
  current_client_index,  \* provider["current_client_index"] (OpenRouter only)
  api_keys,              \* RealSearchOrchestrator.api_keys: pool size per provider
  key_indices,           \* RealSearchOrchestrator.key_indices
  serper_api_keys,       \* VisualContentCapture.serper_api_keys: pool size
  current_serper_index,  \* VisualContentCapture.current_serper_index
  stack,                 \* coroutine frames of the running generation call
  status,                \* "idle", "running", "returned", "raised"
  result,                \* kind of text the finished call returned, or "exc"
  callKind,              \* "gwas" (generate_with_active_search) or "gt" (generate_text)
  maxIter,               \* max_search_iterations of the running call
  calls,                 \* generation calls started so far
  reqBy,                 \* requests answered per provider in the current call
  rlBy,                  \* of these, answered RateLimited
  okCount,               \* answers of the current call that were no error
  loops,                 \* providers whose tool loop the current call started, in order
  lastReq,               \* the last provider request of the current call
  prevReq,               \* the one before it
  lastSearch,            \* queries _execute_real_search ran with in the last step
  keyLog,                \* credential indices handed out per pool (SpecKeys)
  reg,                   \* a provider registry drawn for the selector (SpecSel)
  selected,              \* what _get_best_provider returned for it (SpecSel)
  phase,                 \* where execute_massive_real_search is suspended (SpecSearch)
  tasks,                 \* the adapter calls of the search and what they returned
  search_results,        \* the search_results dict of the running search
  all_results,           \* the list all_results of line 257
  finished,              \* the adapter calls of the search in the order they ended
  attempts,              \* how often the running search launched each adapter
  searches,              \* search calls started so far
  prevFailed,            \* adapters the previous search call saw fail for credit or transport
  api_rotations,         \* session_stats['api_rotations'] of the search orchestrator
  callers,               \* two concurrent callers of the OpenRouter tool loop (SpecRace)
  metrics,               \* the metrics handed to a virality formula (SpecScore)
  score,                 \* what the formula returned for them
  environ,               \* os.environ: <PROVIDER>_API_KEY and its numbered keys (SpecLoad)
  loaded,                \* the credential pool each loader built from it
  to_format,             \* the search result handed to _format_search_results_for_ai (SpecFormat)
  formatted,             \* the block it built, line by line
  to_rank,               \* the list handed to _identify_viral_content (SpecViral)
  ranked,                \* what it returned
  session_files,         \* the files of analyses_data/sessions, by name (SpecFiles)
  now,                   \* the second the clock shows
  writes,                \* files written so far: the modification time of the next
  last_op                \* the last load or delete and the files it touched

vars == <<providers, total_keys, available, current_client_index, api_keys,
          key_indices, serper_api_keys, current_serper_index, stack, status,
          result, callKind, maxIter, calls, reqBy, rlBy, okCount, loops,
          lastReq, prevReq, lastSearch, keyLog, reg, selected,
          phase, tasks, search_results, all_results, finished, attempts,
          searches, prevFailed, api_rotations, callers,
          metrics, score, environ, loaded, to_format, formatted,
          to_rank, ranked, session_files, now, writes, last_op>>

genVars == <<providers, total_keys, available, current_client_index, stack,
             status, result, callKind, maxIter, calls, reqBy, rlBy, okCount,
             loops, lastReq, prevReq, lastSearch>>
keyVars == <<api_keys, key_indices, serper_api_keys, current_serper_index, keyLog>>
selVars == <<reg, selected>>
searchRun == <<phase, tasks, search_results, all_results, finished, attempts,
               searches, prevFailed>>
searchVars == <<searchRun, api_rotations>>
raceVars == <<callers>>
scoreVars == <<metrics, score>>
loadVars == <<environ, loaded>>
formatVars == <<to_format, formatted>>
rankVars == <<to_rank, ranked>>
fileVars == <<session_files, now, writes, last_op>>
lateVars == <<loadVars, formatVars, rankVars, fileVars>>
\* the variables of the specifications that run neither generation, key pools
\* nor the selector
restVars == <<searchVars, raceVars, scoreVars, lateVars>>

\* ----------------------------------------------------- credential pools
\* RealSearchOrchestrator.get_next_api_key: the key handed out and the new cursors
GetNextApiKeyNoWrap(keys, indices, provider) ==
  IF provider \notin DOMAIN keys \/ keys[provider] = 0
  THEN [key |-> None, key_indices |-> indices]
  ELSE [key |-> indices[provider],
        key_indices |-> [indices EXCEPT ![provider] = @ + 1]]

GetNextApiKeyAdvanceFirst(keys, indices, provider) ==
  IF provider \notin DOMAIN keys \/ keys[provider] = 0
  THEN [key |-> None, key_indices |-> indices]
  ELSE [key |-> (indices[provider] + 1) % keys[provider],
        key_indices |-> [indices EXCEPT ![provider] = (@ + 1) % keys[provider]]]

GetNextApiKey(keys, indices, provider) ==
  IF provider \notin DOMAIN keys \/ keys[provider] = 0
  THEN [key |-> None, key_indices |-> indices]
  ELSE [key |-> indices[provider],
        key_indices |-> [indices EXCEPT ![provider] = (@ + 1) % keys[provider]]]

\* get_next_api_key, lines 114-115 and 128-131: the rotation counters after a
\* call; a counter that has no entry yet counts as 0
RotationsAfter(keys, rotations, provider) ==
  IF provider \notin DOMAIN keys \/ keys[provider] = 0
  THEN rotations
  ELSE [rotations EXCEPT ![provider] = @ + 1]

\* VisualContentCapture._get_next_serper_key
GetNextSerperKey(nkeys, index) ==
  IF nkeys = 0
  THEN [key |-> None, index |-> index]
  ELSE [key |-> index, index |-> (index + 1) % nkeys]

\* the cursors after one execute_massive_real_search: every launched adapter
\* starts with one get_next_api_key of its own provider
AfterSearch(keys, indices) ==
  [p \in DOMAIN indices |->
     IF p \in LaunchedProviders
     THEN GetNextApiKey(keys, indices, p).key_indices[p]
     ELSE indices[p]]

\* ------------------------------------------------------ coroutine frames
\* fn: "gwas" generate_with_active_search, "or" _generate_openrouter_with_tools,
\*     "gem" _generate_gemini_with_tools, "oai" _generate_openai_with_tools,
\*     "gt" generate_text
\* key: provider of the frame; ci: its local current_index; iter: its local
\* iteration (attempt in generate_text); at: where the frame is suspended;
\* id: position of the frame's tool loop in loops (0 for no tool loop);
\* answered: provider requests of the frame answered so far; tool_results: the
\* tool-result messages the frame has added to its conversation
Frame(fn, key, ci, iter, at, id) ==
  [fn |-> fn, key |-> key, ci |-> ci, iter |-> iter, at |-> at, id |-> id,
   answered |-> 0, tool_results |-> 0]

\* the value of the local "iteration" of a tool loop at the frame's suspension
\* point: "iteration += 1" (340, 438, 559) runs before the request of the pass
Iteration(f) == IF f.at = "loop" THEN f.iter + 1 ELSE f.iter

Top(s) == s[Len(s)]
Pop(s) == SubSeq(s, 1, Len(s) - 1)
SetTop(s, f) == [s EXCEPT ![Len(s)] = f]

\* texts a call returns, by kind
FinalText == "final"            \* the provider's answer
LimitText == "limit"            \* "Analise realizada com ... e busca ativa." (398, 510, 647)
NoProviderText == "no_provider"          \* line 750
NotImplementedText == "not_implemented"  \* line 878
GenErrorText == "gen_error"              \* line 876
QuotaText == "oai_quota"                 \* line 505
Raised == "exc"                 \* an exception instead of a text
DegradedTexts == {NoProviderText, NotImplementedText, GenErrorText, QuotaText}
Texts == {FinalText, LimitText} \cup DegradedTexts

\* a search not started: the dict of lines 148-165 is built by each call
NoSearchResults ==
  [web_results |-> <<>>, social_results |-> <<>>, youtube_results |-> <<>>,
   viral_content |-> <<>>, providers_used |-> <<>>,
   statistics |-> [total_sources |-> 0, unique_urls |-> 0, content_extracted |-> 0]]

SearchRunIdle ==
  /\ phase = "idle"
  /\ tasks = <<>>
  /\ search_results = NoSearchResults
  /\ all_results = <<>>
  /\ finished = <<>>
  /\ attempts = <<>>
  /\ searches = 0
  /\ prevFailed = {}

SearchIdle ==
  /\ SearchRunIdle
  /\ api_rotations = <<>>

\* no caller has entered _generate_openrouter_with_tools
CallerIdle == [pc |-> "idle", current_index |-> 0, client |-> None, iteration |-> 0,
               text |-> "none"]

RaceIdle == callers = <<>>

\* no virality formula has been called
ScoreIdle ==
  /\ metrics = <<>>
  /\ score = <<>>

\* no configuration loader has run
LoadIdle ==
  /\ environ = <<>>
  /\ loaded = <<>>

\* nothing has been formatted
FormatIdle ==
  /\ to_format = <<>>
  /\ formatted = <<>>

\* nothing has been ranked
RankIdle ==
  /\ to_rank = <<>>
  /\ ranked = <<>>

\* no session file has been touched
FilesIdle ==
  /\ session_files = {}
  /\ now = 0
  /\ writes = 0
  /\ last_op = <<>>

LateIdle == LoadIdle /\ FormatIdle /\ RankIdle /\ FilesIdle

RestIdle == SearchIdle /\ RaceIdle /\ ScoreIdle /\ LateIdle

\* a control state: the frames, the completion travelling up (ret), the loops started
Ctl(stk, ret, lps) == [stack |-> stk, ret |-> ret, loops |-> lps]

\* number of generate_text frames on the stack
GTDepth(stk) == Cardinality({i \in 1..Len(stk) : stk[i].fn = "gt"})

\* a variant that always binds the first client of the pool
EnterORFirstClient(S, key, cur) ==
  Ctl(Append(S.stack, Frame("or", key, 0, 0, "loop", Len(S.loops) + 1)),
      "none", Append(S.loops, key))

\* _generate_openrouter_with_tools, lines 526-556: bind the client at the cursor
EnterOR(S, key, cur) ==
  Ctl(Append(S.stack, Frame("or", key, cur[key], 0, "loop", Len(S.loops) + 1)),
      "none", Append(S.loops, key))

\* _generate_gemini_with_tools, lines 312-337: model and chat set-up comes first
EnterGem(S) ==
  Ctl(Append(S.stack, Frame("gem", GEMINI, 0, 0, "setup", Len(S.loops) + 1)),
      "none", Append(S.loops, GEMINI))

\* _generate_openai_with_tools, lines 412-435
EnterOAI(S) ==
  Ctl(Append(S.stack, Frame("oai", OPENAI, 0, 0, "loop", Len(S.loops) + 1)),
      "none", Append(S.loops, OPENAI))

\* generate_text, lines 746-767, 791-800, 823, 846, 878: select the provider and
\* start on it; the interpreter raises RecursionError when the nesting is too deep
EnterGT(S, conf, av, cur) ==
  IF GTDepth(S.stack) >= MaxDepth THEN Ctl(S.stack, Raised, S.loops)
  ELSE
    LET provider_name == GetBestProvider(Registry(conf, av), FALSE) IN
    IF provider_name = None THEN Ctl(S.stack, NoProviderText, S.loops)
    ELSE IF provider_name \in ORProviders
    THEN Ctl(Append(S.stack, Frame("gt", provider_name, cur[provider_name], 0, "loop", 0)),
             "none", S.loops)
    ELSE IF provider_name \in {GEMINI, GROQ}
    THEN Ctl(Append(S.stack, Frame("gt", provider_name, 0, 0, "loop", 0)), "none", S.loops)
    ELSE Ctl(S.stack, NotImplementedText, S.loops)

\* while iteration < max_iterations (339, 437, 558) is false
LoopExhaustedLate(f, m) == f.iter > m

LoopExhausted(f, m) == f.iter >= m

\* generate_with_active_search, lines 284-298: the try around the tool loop
GwasCatchesNothing(f, ret) == FALSE

GwasCatches(f, ret) == f.fn = "gwas" /\ f.at = "try" /\ ret = Raised

\* what a suspended caller does with the completion of its callee
\*   gwas "try"      : lines 284-302, the except calls generate_text
\*   gwas otherwise  : line 263 or 302, the completion is the call's
\*   or "inner_exc"  : lines 633/636 ran inside the except of 617, itself inside
\*                     the try of 525: an exception lands in the except of 649
\*   everything else : return await / re-raise
RECURSIVE Run(_, _, _, _, _)
Run(S, m, conf, av, cur) ==
  IF S.stack = <<>> THEN S
  ELSE
    LET f == Top(S.stack)
        rest == Pop(S.stack)
    IN
    IF S.ret = "none"
    THEN IF f.fn \in {"or", "oai", "gem"} /\ f.at = "loop" /\ LoopExhausted(f, m)
         THEN Run(Ctl(rest, LimitText, S.loops), m, conf, av, cur)
         ELSE S
    ELSE IF GwasCatches(f, S.ret)
    THEN Run(EnterGT(Ctl(SetTop(S.stack, [f EXCEPT !.at = "fallback"]), "none", S.loops),
                     conf, av, cur), m, conf, av, cur)
    ELSE IF f.fn = "or" /\ f.at = "inner_exc" /\ S.ret = Raised
            /\ f.key = GROK /\ ORGEMINI \in conf
    THEN Run(EnterOR(Ctl(SetTop(S.stack, [f EXCEPT !.at = "outer_exc"]), "none", S.loops),
                     ORGEMINI, cur), m, conf, av, cur)
    ELSE Run(Ctl(rest, S.ret, S.loops), m, conf, av, cur)

\* a variant in which a step that ran a search marks every provider available
OutcomeSearchRestores(av, cur, S, searched) ==
  [av |-> IF searched THEN [p \in DOMAIN av |-> TRUE] ELSE av,
   cur |-> cur, S |-> S, searched |-> searched]

\* an outcome of a handler step: the flags, the cursors, the control state before
\* it runs on to the next suspension point, and whether a search was executed
Outcome(av, cur, S, searched) == [av |-> av, cur |-> cur, S |-> S, searched |-> searched]

\* provider answers: a text, a call of the search tool, an error classified as
\* rate limit ("429", "quota", "rate_limit" in the message), any other error
Responses == {"final", "tool", "ratelimit", "error"}
\* the "query" argument of a google_search tool call
Queries == {"q1", "q2"}

\* the classification of an exception as rate limit (619, 493)
IsRateLimitAny(resp) == resp \in {"ratelimit", "error"}

IsRateLimit(resp) == resp = "ratelimit"
\* generate_text passes no tool and handles every exception alike
TextResponses == {"final", "error"}

\* _generate_openrouter_with_tools, lines 558-647: one pass of the while loop for
\* the answer resp to the request sent with clients[f.ci]; f is the top frame of S
OpenRouterStep(S, resp, conf, av, cur, n) ==
  LET f == Top(S.stack)
      key == f.key
      f1 == [f EXCEPT !.iter = @ + 1, !.answered = @ + 1]
      rotated == [cur EXCEPT ![key] = (f.ci + 1) % n[key]]
  IN
  IF resp = "tool"
  THEN Outcome(av, cur, Ctl(SetTop(S.stack, [f1 EXCEPT !.tool_results = @ + 1]),
                            "none", S.loops), TRUE)
  ELSE IF resp = "final"
  THEN Outcome(av, rotated, Ctl(Pop(S.stack), FinalText, S.loops), FALSE)
  ELSE IF ~IsRateLimit(resp)
  THEN Outcome(av, cur, Ctl(Pop(S.stack), LimitText, S.loops), FALSE)
  ELSE \* rate limit, lines 619-640
    IF rotated[key] = f.ci
    THEN LET av1 == [av EXCEPT ![key] = FALSE]
             held == Ctl(SetTop(S.stack, [f1 EXCEPT !.at = "inner_exc"]), "none", S.loops)
         IN IF key = GROK /\ ORGEMINI \in conf
            THEN Outcome(av1, rotated, EnterOR(held, ORGEMINI, rotated), FALSE)
            ELSE IF key = ORGEMINI /\ GEMINI \in conf
            THEN Outcome(av1, rotated, EnterGem(held), FALSE)
            ELSE Outcome(av1, rotated, Ctl(held.stack, Raised, held.loops), FALSE)
    ELSE Outcome(av, rotated, Ctl(SetTop(S.stack, f1), "none", S.loops), FALSE)

\* _generate_openai_with_tools, lines 437-510
OpenAIStep(S, resp, conf, av, cur) ==
  LET f == Top(S.stack)
      f1 == [f EXCEPT !.iter = @ + 1, !.answered = @ + 1]
  IN
  IF resp = "tool"
  THEN Outcome(av, cur, Ctl(SetTop(S.stack, [f1 EXCEPT !.tool_results = @ + 1]),
                            "none", S.loops), TRUE)
  ELSE IF resp = "final"
  THEN Outcome(av, cur, Ctl(Pop(S.stack), FinalText, S.loops), FALSE)
  ELSE IF ~IsRateLimit(resp)
  THEN Outcome(av, cur, Ctl(Pop(S.stack), LimitText, S.loops), FALSE)
  ELSE
    LET av1 == [av EXCEPT ![OPENAI] = FALSE]
        fallback_provider == GetBestProvider(Registry(conf, av1), FALSE)
        held == Ctl(SetTop(S.stack, [f1 EXCEPT !.at = "inner_exc"]), "none", S.loops)
    IN IF fallback_provider # None /\ fallback_provider # OPENAI
       THEN Outcome(av1, cur, EnterGT(held, conf, av1, cur), FALSE)
       ELSE Outcome(av1, cur, Ctl(Pop(S.stack), QuotaText, S.loops), FALSE)

\* min_processing_time and start_time are parameters and locals of
\* generate_with_active_search; lines 383-388 of _generate_gemini_with_tools read
\* them, where no such name is bound: NameError
MinProcessingTimeBound == FALSE

\* _generate_gemini_with_tools, lines 376-394: the text of the response is the
\* final answer, after the minimum-time wait; the except of 392 breaks the loop
GeminiFinish(S) ==
  IF MinProcessingTimeBound
  THEN Ctl(Pop(S.stack), FinalText, S.loops)
  ELSE Ctl(Pop(S.stack), LimitText, S.loops)

\* _generate_gemini_with_tools, lines 312-334 and 400-402: the set-up raises or not
GeminiSetup(S, ok) ==
  IF ok
  THEN Ctl(SetTop(S.stack, [Top(S.stack) EXCEPT !.at = "loop"]), "none", S.loops)
  ELSE Ctl(Pop(S.stack), Raised, S.loops)

\* _generate_gemini_with_tools, lines 339-362 and 392-398: chat.send_message of
\* the pass; a function call runs the search and then sends the results
GeminiStep(S, resp, av, cur) ==
  LET f == Top(S.stack)
      f1 == [f EXCEPT !.iter = @ + 1, !.answered = @ + 1]
  IN
  IF resp = "tool"
  THEN Outcome(av, cur, Ctl(SetTop(S.stack, [f1 EXCEPT !.at = "send_results",
                                                       !.tool_results = @ + 1]),
                            "none", S.loops), TRUE)
  ELSE IF resp = "final"
  THEN Outcome(av, cur, GeminiFinish(S), FALSE)
  ELSE Outcome(av, cur, Ctl(Pop(S.stack), LimitText, S.loops), FALSE)

\* _generate_gemini_with_tools, lines 365-377: the answer to the search results
\* is dropped; "continue" resumes the for loop over the parts, after which the
\* first response is taken as the final one
GeminiResultsStep(S, resp, av, cur) ==
  IF resp \in {"final", "tool"}
  THEN Outcome(av, cur, GeminiFinish(S), FALSE)
  ELSE Outcome(av, cur, Ctl(Pop(S.stack), LimitText, S.loops), FALSE)

\* generate_text, lines 755-876: one attempt of the key loop of an OpenRouter
\* provider, or the single request of the others; every exception counts alike
GenerateTextStep(S, resp, conf, av, cur, n) ==
  LET f == Top(S.stack)
      key == f.key
  IN
  IF resp = "final"
  THEN Outcome(av, cur, Ctl(Pop(S.stack), FinalText, S.loops), FALSE)
  ELSE IF key \in ORProviders
  THEN
    LET current_index == (f.ci + 1) % n[key]
        cur1 == [cur EXCEPT ![key] = current_index]
        held == Ctl(SetTop(S.stack, [f EXCEPT !.at = "exc", !.ci = current_index]),
                    "none", S.loops)
        retry == \/ key = GROK /\ ORGEMINI \in conf /\ av[ORGEMINI]
                 \/ key = ORGEMINI /\ GEMINI \in conf /\ av[GEMINI]
    IN IF f.iter = n[key] - 1
       THEN IF retry
            THEN Outcome(av, cur1, EnterGT(held, conf, av, cur1), FALSE)
            ELSE Outcome(av, cur1, Ctl(Pop(S.stack), GenErrorText, S.loops), FALSE)
       ELSE Outcome(av, cur1,
                    Ctl(SetTop(S.stack, [f EXCEPT !.ci = current_index, !.iter = @ + 1]),
                        "none", S.loops), FALSE)
  ELSE Outcome(av, cur, Ctl(Pop(S.stack), GenErrorText, S.loops), FALSE)

\* generate_with_active_search, lines 248-297: the entry selection and the dispatch
GenerateWithActiveSearch(conf, av, cur) ==
  LET provider_name ==
        IF GROK \in conf /\ av[GROK] THEN GROK
        ELSE IF ORGEMINI \in conf /\ av[ORGEMINI] THEN ORGEMINI
        ELSE GetBestProvider(Registry(conf, av), TRUE)
      base(at) == Ctl(<<Frame("gwas", provider_name, 0, 0, at, 0)>>, "none", <<>>)
  IN
  IF provider_name = None THEN EnterGT(base("direct"), conf, av, cur)
  ELSE IF provider_name \in ORProviders THEN EnterOR(base("try"), provider_name, cur)
  ELSE IF provider_name = GEMINI THEN EnterGem(base("try"))
  ELSE IF provider_name = OPENAI THEN EnterOAI(base("try"))
  ELSE EnterGT(base("try"), conf, av, cur)

\* ------------------------------------------------------------ the calls
NoReq ==
  [prov |-> None, cred |-> 0, resp |-> "none", loop |-> 0, avail |-> TRUE,
   cursor |-> 0, at |-> "none", iter |-> 0, nth |-> 0, query |-> None]

\* the request the top frame has in flight: provider, credential index, tool
\* loop, and the provider's available flag when the request was sent; its cursor
\* then, where the frame was suspended, the loop's iteration counter, the number
\* of the request among those of its frame, and the query of a tool call
Request(f, resp, q) ==
  [prov |-> f.key, cred |-> f.ci, resp |-> resp, loop |-> f.id, avail |-> available[f.key],
   cursor |-> IF f.key \in ORProviders THEN current_client_index[f.key] ELSE 0,
   at |-> f.at, iter |-> Iteration(f), nth |-> f.answered + 1, query |-> q]

\* a tool call names its query; other answers carry none
QueriesOf(resp) == IF resp = "tool" THEN Queries ELSE {None}

\* run the outcome o of a handler step on to the next suspension point
Commit(o, m) ==
  LET R == Run(o.S, m, providers, o.av, o.cur) IN
  /\ available' = o.av
  /\ current_client_index' = o.cur
  /\ stack' = R.stack
  /\ loops' = R.loops
  /\ status' = IF R.stack # <<>> THEN "running"
               ELSE IF R.ret = Raised THEN "raised" ELSE "returned"
  /\ result' = IF R.stack # <<>> THEN "none" ELSE R.ret
  /\ key_indices' = IF o.searched THEN AfterSearch(api_keys, key_indices) ELSE key_indices
  /\ lastSearch' = IF o.searched THEN <<lastReq'.query>> ELSE <<>>

Answered(f, resp, q) ==
  /\ reqBy' = [reqBy EXCEPT ![f.key] = @ + 1]
  /\ rlBy' = [rlBy EXCEPT ![f.key] = IF resp = "ratelimit" THEN @ + 1 ELSE @]
  /\ okCount' = IF resp \in {"final", "tool"} THEN okCount + 1 ELSE okCount
  /\ lastReq' = Request(f, resp, q)
  /\ prevReq' = [lastReq EXCEPT !.query = None]

Fresh ==
  /\ reqBy' = [p \in GenProviders |-> 0]
  /\ rlBy' = [p \in GenProviders |-> 0]
  /\ okCount' = 0
  /\ lastReq' = NoReq
  /\ prevReq' = NoReq

Suspended(fn, at) ==
  /\ status = "running"
  /\ stack # <<>>
  /\ Top(stack).fn = fn
  /\ Top(stack).at = at

\* a caller starts generate_with_active_search(max_search_iterations = m);
\* preferred_model changes only the log line (248-254)
StartGenerateWithActiveSearch(m) ==
  /\ status # "running"
  /\ calls < MaxCalls
  /\ calls' = calls + 1
  /\ callKind' = "gwas"
  /\ maxIter' = m
  /\ Fresh
  /\ Commit(Outcome(available, current_client_index,
                    GenerateWithActiveSearch(providers, available, current_client_index),
                    FALSE), m)
  /\ UNCHANGED <<providers, total_keys, api_keys, serper_api_keys,
                 current_serper_index, keyLog, reg, selected, restVars>>

\* a caller starts generate_text
StartGenerateText ==
  /\ status # "running"
  /\ calls < MaxCalls
  /\ calls' = calls + 1
  /\ callKind' = "gt"
  /\ Fresh
  /\ Commit(Outcome(available, current_client_index,
                    EnterGT(Ctl(<<>>, "none", <<>>), providers, available,
                            current_client_index), FALSE), maxIter)
  /\ UNCHANGED <<providers, total_keys, api_keys, serper_api_keys,
                 current_serper_index, maxIter, keyLog, reg, selected, restVars>>

Frozen == UNCHANGED <<providers, total_keys, api_keys, serper_api_keys,
                      current_serper_index, callKind, maxIter, calls, keyLog,
                      reg, selected, restVars>>

Here == Ctl(stack, "none", loops)

OpenRouterResponse(resp) ==
  /\ Suspended("or", "loop")
  /\ \E q \in QueriesOf(resp) : Answered(Top(stack), resp, q)
  /\ Commit(OpenRouterStep(Here, resp, providers, available, current_client_index,
                           total_keys), maxIter)
  /\ Frozen

OpenAIResponse(resp) ==
  /\ Suspended("oai", "loop")
  /\ \E q \in QueriesOf(resp) : Answered(Top(stack), resp, q)
  /\ Commit(OpenAIStep(Here, resp, providers, available, current_client_index), maxIter)
  /\ Frozen

GeminiSetupDone(ok) ==
  /\ Suspended("gem", "setup")
  /\ UNCHANGED <<reqBy, rlBy, okCount, lastReq, prevReq>>
  /\ Commit(Outcome(available, current_client_index, GeminiSetup(Here, ok), FALSE), maxIter)
  /\ Frozen

GeminiResponse(resp) ==
  /\ Suspended("gem", "loop")
  /\ \E q \in QueriesOf(resp) : Answered(Top(stack), resp, q)
  /\ Commit(GeminiStep(Here, resp, available, current_client_index), maxIter)
  /\ Frozen

GeminiResultsResponse(resp) ==
  /\ Suspended("gem", "send_results")
  /\ \E q \in QueriesOf(resp) : Answered(Top(stack), resp, q)
  /\ Commit(GeminiResultsStep(Here, resp, available, current_client_index), maxIter)
  /\ Frozen

GenerateTextResponse(resp) ==
  /\ Suspended("gt", "loop")
  /\ \E q \in QueriesOf(resp) : Answered(Top(stack), resp, q)
  /\ Commit(GenerateTextStep(Here, resp, providers, available, current_client_index,
                             total_keys), maxIter)
  /\ Frozen

\* RealSearchOrchestrator.execute_massive_real_search called on its own: what it
\* does to the credential cursors
ExecuteMassiveRealSearch ==
  /\ key_indices' = AfterSearch(api_keys, key_indices)
  /\ UNCHANGED <<genVars, api_keys, serper_api_keys, current_serper_index, keyLog,
                 selVars, restVars>>

\* the pools a configuration can give: a provider is in api_keys iff it has a key
PoolsUpTo(k) ==
  UNION {[D -> 1..k] : D \in SUBSET SearchProviders}

\* the providers in the order _load_all_api_keys reads them (line 90)
SearchOrder == <<"FIRECRAWL", "JINA", "GOOGLE", "EXA", "SERPER", "YOUTUBE", "SUPADATA", "X">>

\* the configurations Init draws: no search key at all, or every provider with
\* a pool, the sizes 1..MaxSearchKeys dealt out in turn
SearchConfigs ==
  {f \in PoolsUpTo(MaxSearchKeys) :
     \/ DOMAIN f = {}
     \/ /\ DOMAIN f = SearchProviders
        /\ \A i \in 1..Len(SearchOrder) :
             f[SearchOrder[i]] = ((i - 1) % MaxSearchKeys) + 1}

Init ==
  /\ total_keys \in [ORProviders -> 0..MaxKeys]
  /\ total_keys[GROK] = total_keys[ORGEMINI]
  /\ \E others \in SUBSET {GEMINI, OPENAI} :
       providers = others \cup {GROQ} \cup (IF total_keys[GROK] > 0 THEN ORProviders ELSE {})
  /\ available = [p \in GenProviders |-> InitiallyAvailable(p)]
  /\ current_client_index = [p \in ORProviders |-> 0]
  /\ api_keys \in SearchConfigs
  /\ key_indices = [p \in DOMAIN api_keys |-> 0]
  /\ serper_api_keys = 0
  /\ current_serper_index = 0
  /\ stack = <<>>
  /\ status = "idle"
  /\ result = "none"
  /\ callKind = "none"
  /\ maxIter = 1
  /\ calls = 0
  /\ reqBy = [p \in GenProviders |-> 0]
  /\ rlBy = [p \in GenProviders |-> 0]
  /\ okCount = 0
  /\ loops = <<>>
  /\ lastReq = NoReq
  /\ prevReq = NoReq
  /\ lastSearch = <<>>
  /\ keyLog = <<>>
  /\ reg = <<>>
  /\ selected = None
  /\ RestIdle

Next ==
  \/ \E m \in 1..MaxIterations : StartGenerateWithActiveSearch(m)
  \/ StartGenerateText
  \/ \E resp \in Responses : OpenRouterResponse(resp)
  \/ \E resp \in Responses : OpenAIResponse(resp)
  \/ \E ok \in BOOLEAN : GeminiSetupDone(ok)
  \/ \E resp \in Responses : GeminiResponse(resp)
  \/ \E resp \in Responses : GeminiResultsResponse(resp)
  \/ \E resp \in TextResponses : GenerateTextResponse(resp)
  \/ ExecuteMassiveRealSearch

Spec == Init /\ [][Next]_vars

\* ================================================= generation properties
\* provider answers received so far by the current call
TotalAnswers ==
  reqBy[GROK] + reqBy[ORGEMINI] + reqBy[GEMINI] + reqBy[GROQ] + reqBy[OPENAI]

Finished == status \in {"returned", "raised"}

\* some provider answer (or the Gemini set-up) lets the running call go on: the
\* call is suspended where one of the answer actions takes it up
CanReceiveAnswer ==
  \/ Suspended("or", "loop")
  \/ Suspended("oai", "loop")
  \/ Suspended("gem", "setup")
  \/ Suspended("gem", "loop")
  \/ Suspended("gem", "send_results")
  \/ Suspended("gt", "loop")

\* C1 as stated: one generate_with_active_search call receives at most
\* max_search_iterations provider answers, returns a text and never raises
C1_AtMostMaxIterationsAnswers ==
  callKind = "gwas" =>
    /\ TotalAnswers <= maxIter
    /\ status # "raised"
    /\ status = "returned" => result \in Texts

\* C1 amended: every tool loop the call starts makes at most max_search_iterations
\* passes, a fallback starts the next loop with a fresh counter, and the whole call
\* receives at most 3 * max_search_iterations + 2 provider answers; it cannot get
\* stuck while running, it returns a final, iteration-limit or degraded text, and
\* it never raises
C1_BoundedAnswersAndText ==
  callKind = "gwas" =>
    /\ TotalAnswers <= 3 * maxIter + 2
    /\ \A i \in 1..Len(stack) : stack[i].iter <= maxIter
    /\ status # "raised"
    /\ status = "returned" => result \in Texts
    /\ status = "running" => CanReceiveAnswer

\* C1 witness: a call that went through the whole fallback chain and returned
C1_Witness ==
  /\ callKind = "gwas"
  /\ status = "returned"
  /\ maxIter = 3
  /\ TotalAnswers = 3 * maxIter + 2

\* C2: when every request of the call to the primary provider was answered
\* RateLimited, at least once per credential of its pool, the call has started the
\* secondary provider's loop and the primary is marked unavailable
C2_FallbackAfterAllRateLimited ==
  ( /\ callKind = "gwas"
    /\ Finished
    /\ loops # <<>>
    /\ loops[1] = GROK
    /\ rlBy[GROK] = reqBy[GROK]
    /\ rlBy[GROK] >= total_keys[GROK] )
  => ( /\ \E i \in 1..Len(loops) : loops[i] = ORGEMINI
       /\ ~available[GROK] )

\* C3: in an OpenRouter tool loop over a pool of n >= 2 credentials, the request
\* after a RateLimited answer uses credential (i + 1) mod n
C3_NextCredentialAfterRateLimit ==
  ( /\ callKind = "gwas"
    /\ prevReq.resp = "ratelimit"
    /\ prevReq.prov \in ORProviders
    /\ lastReq.prov = prevReq.prov
    /\ lastReq.loop = prevReq.loop
    /\ lastReq.loop # 0
    /\ total_keys[prevReq.prov] >= 2 )
  => lastReq.cred = (prevReq.cred + 1) % total_keys[prevReq.prov]

\* C4: within one generation call an OpenRouter provider answers RateLimited at
\* most as often as its pool has credentials
C4_RateLimitedAtMostPoolSize ==
  callKind = "gwas" =>
    \A p \in ORProviders \cap providers : rlBy[p] <= total_keys[p]

\* C5: no generation request goes to a provider whose available flag is false
C5_NoRequestToUnavailable ==
  lastReq.prov # None => lastReq.avail

\* C6: generate_with_active_search never raises to its caller, and a call in which
\* every provider answer was an error returns an iteration-limit or degraded text
C6_DegradedTextNotException ==
  callKind = "gwas" =>
    /\ status # "raised"
    /\ (status = "returned" /\ okCount = 0) => result \in DegradedTexts \cup {LimitText}

\* C6 witness: both OpenRouter providers rate-limited away, the exception of the
\* exhausted chain caught at line 298, generate_text finds no provider left
C6_Witness ==
  /\ callKind = "gwas"
  /\ status = "returned"
  /\ okCount = 0
  /\ Len(loops) >= 3
  /\ ~available[GROK]
  /\ ~available[ORGEMINI]
  /\ result = NoProviderText

\* C8: every credential cursor is an index of its pool
C8_CursorInPool ==
  /\ \A p \in ORProviders \cap providers :
       current_client_index[p] \in 0..(total_keys[p] - 1)
  /\ \A p \in DOMAIN key_indices : key_indices[p] \in 0..(api_keys[p] - 1)

\* C8 witness: the generate_text key loop wrapped the cursor of a pool of two, and
\* a search cursor has advanced
C8_Witness ==
  /\ lastReq.prov \in ORProviders
  /\ total_keys[lastReq.prov] = 2
  /\ lastReq.cred = 1
  /\ lastReq.resp = "error"
  /\ current_client_index[lastReq.prov] = 0
  /\ \E p \in DOMAIN key_indices : key_indices[p] = 1

\* C11: in every variant of the tool loop, an answer without tool call to a
\* request of the loop ends the call, which returns the text of that answer
C11_NoToolCallIsFinalAnswer ==
  ( /\ callKind = "gwas"
    /\ lastReq.loop # 0
    /\ lastReq.at = "loop"
    /\ lastReq.resp = "final" )
  => ( /\ status = "returned"
       /\ result = FinalText )

\* C12: an answer calling the search tool makes the search run once, with the
\* query of the call; below the iteration cap the loop then waits for a further
\* answer of the same provider with the result in its conversation, and a text
\* answering that request is the final answer
C12_ToolCallContinuesLoop ==
  callKind = "gwas" =>
    /\ ( lastReq.loop # 0 /\ lastReq.at = "loop" /\ lastReq.resp = "tool" ) =>
         /\ lastSearch = <<lastReq.query>>
         /\ lastReq.iter < maxIter =>
              /\ status = "running"
              /\ Top(stack).id = lastReq.loop
              /\ Top(stack).key = lastReq.prov
              /\ Top(stack).tool_results >= 1
    /\ ( /\ prevReq.loop # 0 /\ prevReq.at = "loop" /\ prevReq.resp = "tool"
         /\ prevReq.iter < maxIter
         /\ lastReq.loop = prevReq.loop
         /\ lastReq.resp = "final" )
       => ( status = "returned" /\ result = FinalText )

\* C13: the iteration counter of every tool loop is at most max_search_iterations,
\* and with the request in flight a loop has sent at most that many requests
C13_IterationAndRequestsWithinCap ==
  callKind = "gwas" =>
    /\ \A i \in 1..Len(stack) : stack[i].id # 0 => Iteration(stack[i]) <= maxIter
    /\ ( /\ status = "running"
         /\ Top(stack).id # 0
         /\ Top(stack).at \in {"loop", "send_results"} )
       => Top(stack).answered + 1 <= maxIter

\* C14: an error that is not a rate limit, answering a request of a tool loop,
\* ends the call with an iteration-limit or degraded text, no further request
\* sent, and leaves the provider's available flag and credential cursor as they were
C14_OtherErrorAbortsLoop ==
  ( /\ callKind = "gwas"
    /\ lastReq.loop # 0
    /\ lastReq.resp = "error" )
  => ( /\ status = "returned"
       /\ result \in DegradedTexts \cup {LimitText}
       /\ available[lastReq.prov] = lastReq.avail
       /\ lastReq.prov \in ORProviders =>
            current_client_index[lastReq.prov] = lastReq.cursor )

\* C14 witness: the primary rate-limited away, the secondary's loop answered a
\* tool call and then an error: the call returned with the secondary untouched
C14_Witness ==
  /\ callKind = "gwas"
  /\ status = "returned"
  /\ lastReq.resp = "error"
  /\ lastReq.prov = ORGEMINI
  /\ lastReq.loop = 2
  /\ lastReq.nth = 2
  /\ ~available[GROK]
  /\ available[ORGEMINI]
  /\ result = LimitText

\* ====================================================== credential pools
\* the generation side at rest, for the specifications that do not run it
GenerationIdle ==
  /\ total_keys = [p \in ORProviders |-> 0]
  /\ providers = {}
  /\ available = [p \in GenProviders |-> InitiallyAvailable(p)]
  /\ current_client_index = [p \in ORProviders |-> 0]
  /\ stack = <<>>
  /\ status = "idle"
  /\ result = "none"
  /\ callKind = "none"
  /\ maxIter = 1
  /\ calls = 0
  /\ reqBy = [p \in GenProviders |-> 0]
  /\ rlBy = [p \in GenProviders |-> 0]
  /\ okCount = 0
  /\ loops = <<>>
  /\ lastReq = NoReq
  /\ prevReq = NoReq
  /\ lastSearch = <<>>

\* the providers SpecKeys gives keys to and asks keys of; "X" has none
KeyedProviders == {"GOOGLE", "SERPER"}
AskedProviders == {"GOOGLE", "SERPER", "X"}
VISUAL == "visual_content_capture"

InitKeys ==
  /\ GenerationIdle
  /\ api_keys \in UNION {[D -> 1..MaxPool] : D \in SUBSET KeyedProviders}
  /\ key_indices = [p \in DOMAIN api_keys |-> 0]
  /\ serper_api_keys \in 0..MaxPool
  /\ current_serper_index = 0
  /\ keyLog = [p \in AskedProviders \cup {VISUAL} |-> <<>>]
  /\ reg = <<>>
  /\ selected = None
  /\ SearchRunIdle
  /\ RaceIdle
  /\ ScoreIdle
  /\ LateIdle
  /\ api_rotations = [p \in AskedProviders |-> 0]

\* one call of get_next_api_key(provider); keyLog records the key it returns
GetNextApiKeyCall(provider) ==
  /\ Len(keyLog[provider]) < MaxKeyCalls
  /\ LET r == GetNextApiKey(api_keys, key_indices, provider) IN
       /\ key_indices' = r.key_indices
       /\ keyLog' = [keyLog EXCEPT ![provider] = Append(@, r.key)]
  /\ api_rotations' = RotationsAfter(api_keys, api_rotations, provider)
  /\ UNCHANGED <<genVars, api_keys, serper_api_keys, current_serper_index, selVars,
                 searchRun, raceVars, scoreVars, lateVars>>

\* one call of _get_next_serper_key()
GetNextSerperKeyCall ==
  /\ Len(keyLog[VISUAL]) < MaxKeyCalls
  /\ LET r == GetNextSerperKey(serper_api_keys, current_serper_index) IN
       /\ current_serper_index' = r.index
       /\ keyLog' = [keyLog EXCEPT ![VISUAL] = Append(@, r.key)]
  /\ UNCHANGED <<genVars, api_keys, key_indices, serper_api_keys, selVars, restVars>>

NextKeys ==
  \/ \E provider \in AskedProviders : GetNextApiKeyCall(provider)
  \/ GetNextSerperKeyCall

SpecKeys == InitKeys /\ [][NextKeys]_vars

\* C7: the k-th call on a pool of n >= 1 credentials returns credential
\* (k - 1) mod n and leaves the cursor at k mod n, in both rotating pools
C7_CyclicRotation ==
  /\ \A p \in DOMAIN api_keys :
       /\ \A k \in 1..Len(keyLog[p]) : keyLog[p][k] = (k - 1) % api_keys[p]
       /\ key_indices[p] = Len(keyLog[p]) % api_keys[p]
  /\ serper_api_keys >= 1 =>
       /\ \A k \in 1..Len(keyLog[VISUAL]) : keyLog[VISUAL][k] = (k - 1) % serper_api_keys
       /\ current_serper_index = Len(keyLog[VISUAL]) % serper_api_keys

\* C7 witness: a pool of 3 called 4 times has handed out 0, 1, 2, 0
C7_Witness ==
  /\ "SERPER" \in DOMAIN api_keys
  /\ api_keys["SERPER"] = 3
  /\ keyLog["SERPER"] = <<0, 1, 2, 0>>
  /\ serper_api_keys = 3
  /\ keyLog[VISUAL] = <<0, 1, 2, 0>>

\* ============================================================== selector
SelNames == <<"A", "B", "C", "D", "E">>

\* registries of up to MaxProviders descriptors, named in declaration order
Descriptors(i) ==
  [name : {SelNames[i]}, priority : 1..MaxPriority, available : BOOLEAN,
   supports_tools : BOOLEAN]

Registries ==
  UNION {{r \in [1..n -> UNION {Descriptors(i) : i \in 1..n}] :
            \A i \in 1..n : r[i].name = SelNames[i]} : n \in 0..MaxProviders}

NotSelected == [done |-> FALSE, require_tools |-> FALSE, name |-> None]

InitSel ==
  /\ GenerationIdle
  /\ api_keys = <<>>
  /\ key_indices = <<>>
  /\ serper_api_keys = 0
  /\ current_serper_index = 0
  /\ keyLog = <<>>
  /\ reg \in Registries
  /\ selected = NotSelected
  /\ RestIdle

\* one call of _get_best_provider(require_tools) on the registry
SelectBestProvider(require_tools) ==
  /\ selected' = [done |-> TRUE, require_tools |-> require_tools,
                  name |-> GetBestProvider(reg, require_tools)]
  /\ UNCHANGED <<genVars, keyVars, reg, restVars>>

\* provider["available"] = False (496, 628), the one field written after set-up
MarkUnavailable(i) ==
  /\ i \in 1..Len(reg)
  /\ reg[i].available
  /\ reg' = [reg EXCEPT ![i].available = FALSE]
  /\ selected' = NotSelected
  /\ UNCHANGED <<genVars, keyVars, restVars>>

NextSel ==
  \/ \E require_tools \in BOOLEAN : SelectBestProvider(require_tools)
  \/ \E i \in 1..MaxProviders : MarkUnavailable(i)

SpecSel == InitSel /\ [][NextSel]_vars

\* the providers that pass the filter, and the best of a set of them
Survivors(require_tools) ==
  {i \in 1..Len(reg) :
     reg[i].available /\ (require_tools => reg[i].supports_tools)}

IsBestOf(name, set) ==
  \E i \in set :
    /\ name = reg[i].name
    /\ \A j \in set :
         \/ reg[i].priority < reg[j].priority
         \/ reg[i].priority = reg[j].priority /\ i <= j

\* C9: when some available provider passes the capability filter, the selector
\* returns the one of them with the lowest priority number, the first declared
\* among equals
C9_LowestPriorityFirstDeclared ==
  (selected.done /\ Survivors(selected.require_tools) # {})
    => IsBestOf(selected.name, Survivors(selected.require_tools))

\* C9 witness: A(1, unavailable), B(2, available, no tools), C(3, available,
\* tools) and require_tools give C
C9_Witness ==
  /\ selected.done
  /\ selected.require_tools
  /\ Len(reg) = 3
  /\ reg[1].priority = 1 /\ ~reg[1].available
  /\ reg[2].priority = 2 /\ reg[2].available /\ ~reg[2].supports_tools
  /\ reg[3].priority = 3 /\ reg[3].available /\ reg[3].supports_tools
  /\ selected.name = "C"

\* C10: with require_tools and no available provider that supports tools, the
\* selector returns the best available provider; it returns None exactly when no
\* provider is available
C10_RelaxedRetry ==
  selected.done =>
    /\ (selected.require_tools /\ Survivors(TRUE) = {} /\ Survivors(FALSE) # {})
         => IsBestOf(selected.name, Survivors(FALSE))
    /\ selected.name = None <=> Survivors(FALSE) = {}

\* C10 witness: the only available providers have no tools and one is returned
C10_Witness ==
  /\ selected.done
  /\ selected.require_tools
  /\ Survivors(TRUE) = {}
  /\ Cardinality(Survivors(FALSE)) >= 2
  /\ \E i \in 1..Len(reg) : reg[i].supports_tools /\ ~reg[i].available
  /\ selected.name # None

\* ================================================================ search
\* execute_massive_real_search: the fan-out over the search adapters and the
\* aggregation of what they return.  Text is a sequence of characters.
UpperCase ==
  <<"A", "B", "C", "D", "E", "F", "G", "H", "I", "J", "K", "L", "M",
    "N", "O", "P", "Q", "R", "S", "T", "U", "V", "W", "X", "Y", "Z">>
LowerCase ==
  <<"a", "b", "c", "d", "e", "f", "g", "h", "i", "j", "k", "l", "m",
    "n", "o", "p", "q", "r", "s", "t", "u", "v", "w", "x", "y", "z">>

\* str.lower(), character by character
LowerChar(c) ==
  IF \E i \in 1..Len(UpperCase) : UpperCase[i] = c
  THEN LowerCase[CHOOSE i \in 1..Len(UpperCase) : UpperCase[i] = c]
  ELSE c

Lower(text) == [i \in 1..Len(text) |-> LowerChar(text[i])]

\* "word in text" of two strings
Contains(text, word) ==
  \E i \in 1..(Len(text) - Len(word) + 1) : SubSeq(text, i, i + Len(word) - 1) = word

\* the words of lines 276-279
Blocklist ==
  { <<"e", "x", "e", "m", "p", "l", "o">>,
    <<"s", "a", "m", "p", "l", "e">>,
    <<"t", "e", "s", "t">>,
    <<"m", "o", "c", "k">>,
    <<"d", "e", "m", "o">>,
    <<"p", "l", "a", "c", "e", "h", "o", "l", "d", "e", "r">>,
    <<"l", "o", "r", "e", "m", " ", "i", "p", "s", "u", "m">>,
    <<"f", "a", "k", "e">>,
    <<"d", "u", "m", "m", "y">>,
    <<"t", "e", "m", "p", "l", "a", "t", "e">> }

\* lines 271-279: title, content and url lowered and concatenated, and searched
\* for the words of the list
HasBlocklistWord(r) ==
  LET text == Lower(r.title) \o Lower(r.content) \o Lower(r.url)
  IN \E word \in Blocklist : Contains(text, word)

\* the records an adapter can return: a real page, a page titled
\* "Exemplo Produto", another page under the URL of the first, and, from the
\* Google adapter, a record built from an item without 'link', its url the ''
\* default of line 559
LojaReal ==
  [title |-> <<"L", "o", "j", "a">>, content |-> <<>>, url |-> <<"a", ".", "b", "r">>, viral_score |-> 5]
ExemploProduto ==
  [title |-> <<"E", "x", "e", "m", "p", "l", "o", " ", "P", "r", "o", "d", "u", "t", "o">>,
   content |-> <<>>, url |-> <<"b", ".", "b", "r">>, viral_score |-> 9]
GuiaReal ==
  [title |-> <<"G", "u", "i", "a">>, content |-> <<>>, url |-> <<"a", ".", "b", "r">>, viral_score |-> 3]
NotaSemLink ==
  [title |-> <<"N", "o", "t", "a">>, content |-> <<>>, url |-> <<>>, viral_score |-> 1]
Catalogue == {LojaReal, ExemploProduto, GuiaReal}
CatalogueOf(a) == IF a = "GOOGLE" THEN Catalogue \cup {NotaSemLink} ELSE Catalogue

\* the search of lines 271-279 gives the same answer whenever it meets the same
\* record: for the records the adapters return it is run once
AdapterRecords == Catalogue \cup {NotaSemLink}
SimulatedAdapterRecords == {r \in AdapterRecords : HasBlocklistWord(r)}

\* a variant that also takes a record without URL for simulated
IsSimulatedOrNoUrl(r) == HasBlocklistWord(r) \/ r.url = <<>>

\* 'not any(word in title + content + url for word in [...])' is false
IsSimulated(r) ==
  IF r \in AdapterRecords THEN r \in SimulatedAdapterRecords ELSE HasBlocklistWord(r)

\* ---------------------------------------------------------- the adapters
WEBSAILOR == "ALIBABA_WEBSAILOR"
\* the order in which lines 181-199 and 218-220 append the adapter calls
WebOrder == <<"FIRECRAWL", "JINA", "GOOGLE", "EXA", "SERPER">>
SocialOrder == <<"YOUTUBE">>
Adapters == {WEBSAILOR} \cup {WebOrder[i] : i \in 1..Len(WebOrder)}
              \cup {SocialOrder[i] : i \in 1..Len(SocialOrder)}

\* the 'platform' of an adapter's answer (line 642; the others set none)
PlatformOf(a) == IF a = "YOUTUBE" THEN "youtube" ELSE "none"

\* what a call of an adapter comes to: an exception, {'success': False, ...}, or
\* {'success': True, 'results': [...]}
\* the 'error' of a {'success': False, ...}: the HTTP status of an answer that is
\* not 200, or the text of an exception the adapter caught
RateLimited == "HTTP 429"
InsufficientCredit == "HTTP 402"
Transport == "transport"

NotLaunched == [kind |-> "none", results |-> <<>>, error |-> None]
Pending == [kind |-> "pending", results |-> <<>>, error |-> None]
RaisedReturn == [kind |-> "raised", results |-> <<>>, error |-> None]
FailedWith(e) == [kind |-> "failed", results |-> <<>>, error |-> e]
FailedReturn == FailedWith(Transport)
OkReturn(l) == [kind |-> "ok", results |-> l, error |-> None]

ResultLists(a) == UNION {[1..n -> CatalogueOf(a)] : n \in 0..MaxResults}
AdapterReturns(a) == {RaisedReturn, FailedReturn} \cup {OkReturn(l) : l \in ResultLists(a)}
\* _search_alibaba_websailor catches its exceptions (354-361)
WebSailorReturns == {FailedReturn} \cup {OkReturn(<<r>>) : r \in Catalogue}

\* a variant that leaves out the adapters that failed in the previous search
LaunchedUnlessFailed(order, keys) ==
  LET Eligible(a) == a \in DOMAIN keys /\ a \notin prevFailed IN SelectSeq(order, Eligible)

\* a variant that launches every adapter, keys or not
LaunchedWithoutKeys(order, keys) == order

\* the adapters of an order that lines 182-199, 219 launch: those with keys
Launched(order, keys) ==
  LET HasKeys(a) == a \in DOMAIN keys IN SelectSeq(order, HasKeys)

\* every launched adapter starts with get_next_api_key of its provider
\* (366, 452, 527, 587, 832, 898), before its first await
RECURSIVE LaunchKeys(_, _, _)
LaunchKeys(keys, indices, order) ==
  IF order = <<>> THEN indices
  ELSE LaunchKeys(keys, GetNextApiKey(keys, indices, Head(order)).key_indices, Tail(order))

RECURSIVE LaunchRotations(_, _, _)
LaunchRotations(keys, rotations, order) ==
  IF order = <<>> THEN rotations
  ELSE LaunchRotations(keys, RotationsAfter(keys, rotations, Head(order)), Tail(order))

\* asyncio.gather(*tasks, return_exceptions=True), line 203 and 228: done when
\* every call is done, the answers in the order of the calls, exceptions among them
GatherReadyFirst(rets) == \E i \in 1..Len(rets) : rets[i].kind # "pending"

GatherReady(rets) == \A i \in 1..Len(rets) : rets[i].kind # "pending"

GatherNoReturnExceptions(rets) ==
  [raised |-> \E i \in 1..Len(rets) : rets[i].kind = "raised", results |-> rets]

Gather(rets) == [raised |-> FALSE, results |-> rets]

\* lines 205-212
RECURSIVE MergeWeb(_, _, _)
MergeWeb(sr, rets, names) ==
  IF rets = <<>> THEN sr
  ELSE
    LET answer == Head(rets)
        sr1 == IF answer.kind = "ok" /\ answer.results # <<>>
               THEN [sr EXCEPT !.web_results = @ \o answer.results,
                               !.providers_used = Append(@, Head(names))]
               ELSE sr
    IN MergeWeb(sr1, Tail(rets), Tail(names))

\* lines 230-239
RECURSIVE MergeSocial(_, _, _)
MergeSocial(sr, rets, names) ==
  IF rets = <<>> THEN sr
  ELSE
    LET answer == Head(rets)
        sr1 == IF answer.kind # "ok" THEN sr
               ELSE IF PlatformOf(Head(names)) = "youtube"
               THEN [sr EXCEPT !.youtube_results = @ \o answer.results]
               ELSE [sr EXCEPT !.social_results = @ \o answer.results]
    IN MergeSocial(sr1, Tail(rets), Tail(names))

\* ------------------------------------------------------- the aggregation
\* _identify_viral_content keeps at most this many records (line 1121)
ViralTop == 10

\* a variant that is not stable: a record goes before the records of its score
InsertBeforeEqual(sorted, x) ==
  LET k == Cardinality({i \in 1..Len(sorted) : sorted[i].viral_score > x.viral_score})
  IN SubSeq(sorted, 1, k) \o <<x>> \o SubSeq(sorted, k + 1, Len(sorted))

\* sorted(..., key=viral_score, reverse=True) is stable: a record goes behind
\* the records of at least its score
InsertByViralScore(sorted, x) ==
  LET k == Cardinality({i \in 1..Len(sorted) : sorted[i].viral_score >= x.viral_score})
  IN SubSeq(sorted, 1, k) \o <<x>> \o SubSeq(sorted, k + 1, Len(sorted))

RECURSIVE SortByViralScore(_)
SortByViralScore(l) ==
  IF l = <<>> THEN <<>>
  ELSE InsertByViralScore(SortByViralScore(SubSeq(l, 1, Len(l) - 1)), l[Len(l)])

\* lines 1116-1123: the first record of every URL, while fewer than ten are kept
RECURSIVE TakeViral(_, _)
TakeViral(viral_content, sorted_content) ==
  IF sorted_content = <<>> THEN viral_content
  ELSE
    LET content == Head(sorted_content)
        seen == \E i \in 1..Len(viral_content) : viral_content[i].url = content.url
    IN IF content.url # <<>> /\ ~seen /\ Len(viral_content) < ViralTop
       THEN TakeViral(Append(viral_content, content), Tail(sorted_content))
       ELSE TakeViral(viral_content, Tail(sorted_content))

\* _identify_viral_content, lines 1102-1126
IdentifyViralContent(all_social_results) ==
  TakeViral(<<>>, SortByViralScore(all_social_results))

\* line 263: sum(len(r.get('content', '')) for r in all_results)
RECURSIVE SumContent(_)
SumContent(l) ==
  IF l = <<>> THEN 0 ELSE Len(Head(l).content) + SumContent(Tail(l))

\* lines 241-296: the viral content, the statistics over the list of all records
\* (255-266), the removal of the
\* records that look simulated from the three category lists
Aggregate(sr) ==
  LET viral_content == IdentifyViralContent(sr.youtube_results \o sr.social_results)
      all == sr.web_results \o sr.social_results \o sr.youtube_results
      unique_urls == {all[i].url : i \in {j \in 1..Len(all) : all[j].url # <<>>}}
      IsReal(r) == ~IsSimulated(r)
      real_results == SelectSeq(all, IsReal)
      InReal(r) == \E i \in 1..Len(real_results) : real_results[i] = r
  IN [sr |-> [sr EXCEPT !.viral_content = viral_content,
                        !.statistics = [total_sources |-> Len(all),
                                        unique_urls |-> Cardinality(unique_urls),
                                        content_extracted |-> SumContent(all)],
                        !.web_results = SelectSeq(sr.web_results, InReal),
                        !.social_results = SelectSeq(sr.social_results, InReal),
                        !.youtube_results = SelectSeq(sr.youtube_results, InReal)],
      all |-> all]

\* ------------------------------------------------- the steps of a search
SearchState(ph, ts, sr, all, indices) ==
  [phase |-> ph, tasks |-> ts, sr |-> sr, all |-> all, indices |-> indices]

SetPending(ts, order) ==
  [a \in DOMAIN ts |->
     IF \E i \in 1..Len(order) : order[i] = a THEN Pending ELSE ts[a]]

\* lines 214-296: launch the social adapters, or finish when there is none
EnterSocial(sr, ts, keys, indices) ==
  LET social_tasks == Launched(SocialOrder, keys) IN
  IF social_tasks = <<>>
  THEN LET ag == Aggregate(sr) IN SearchState("returned", ts, ag.sr, ag.all, indices)
  ELSE SearchState("social", SetPending(ts, social_tasks), sr, <<>>,
                   LaunchKeys(keys, indices, social_tasks))

\* lines 177-203: launch the web adapters, or go on when there is none
EnterWeb(sr, ts, keys, indices) ==
  LET web_tasks == Launched(WebOrder, keys) IN
  IF web_tasks = <<>> THEN EnterSocial(sr, ts, keys, indices)
  ELSE SearchState("web", SetPending(ts, web_tasks), sr, <<>>,
                   LaunchKeys(keys, indices, web_tasks))

\* the adapter calls a step starts: pending after it and not before
NewlyLaunched(ts) ==
  LET IsNew(a) == ts[a].kind = "pending" /\ tasks[a].kind # "pending"
  IN SelectSeq(<<WEBSAILOR>> \o WebOrder \o SocialOrder, IsNew)

Resume(st) ==
  /\ phase' = st.phase
  /\ tasks' = st.tasks
  /\ search_results' = st.sr
  /\ all_results' = st.all
  /\ key_indices' = st.indices
  /\ api_rotations' = LaunchRotations(api_keys, api_rotations, NewlyLaunched(st.tasks))
  /\ attempts' = [a \in DOMAIN attempts |->
                    IF \E i \in 1..Len(NewlyLaunched(st.tasks)) :
                         NewlyLaunched(st.tasks)[i] = a
                    THEN attempts[a] + 1 ELSE attempts[a]]
  /\ UNCHANGED <<searches, prevFailed>>

NotSearch == <<genVars, api_keys, serper_api_keys, current_serper_index, keyLog, selVars,
               raceVars, scoreVars, lateVars>>

\* the adapters whose last call failed for want of credit or in transport
FailedForCreditOrTransport(ts) ==
  {a \in DOMAIN ts : ts[a].kind = "failed"
                       /\ ts[a].error \in {InsufficientCredit, Transport}}

\* lines 144-170 of execute_massive_real_search: a fresh search_results, then the
\* WebSailor call
BeginSearch ==
  /\ phase' = "websailor"
  /\ tasks' = [a \in Adapters |-> IF a = WEBSAILOR THEN Pending ELSE NotLaunched]
  /\ search_results' = NoSearchResults
  /\ all_results' = <<>>
  /\ finished' = <<>>
  /\ attempts' = [a \in Adapters |-> IF a = WEBSAILOR THEN 1 ELSE 0]
  /\ searches' = searches + 1
  /\ prevFailed' = FailedForCreditOrTransport(tasks)
  /\ UNCHANGED <<NotSearch, key_indices, api_rotations>>

\* execute_massive_real_search is called: lines 144-170
StartSearch ==
  /\ phase = "idle"
  /\ BeginSearch

\* execute_massive_real_search is called again on the same orchestrator after
\* a search that returned or raised
SearchAgain ==
  /\ phase \in {"returned", "raised"}
  /\ searches < MaxSearches
  /\ BeginSearch

\* _search_alibaba_websailor has answered: lines 172-203
WebSailorDone(ret) ==
  /\ phase = "websailor"
  /\ LET sr1 == IF ret.kind = "ok"
                THEN [search_results EXCEPT !.web_results = @ \o ret.results,
                                            !.providers_used = Append(@, WEBSAILOR)]
                ELSE search_results
     IN Resume(EnterWeb(sr1, [tasks EXCEPT ![WEBSAILOR] = ret], api_keys, key_indices))
  /\ UNCHANGED <<NotSearch, finished>>

\* one adapter call of the running gather ends; the search stays suspended
AdapterDone(a, ret) ==
  /\ phase \in {"web", "social"}
  /\ tasks[a].kind = "pending"
  /\ tasks' = [tasks EXCEPT ![a] = ret]
  /\ finished' = Append(finished, a)
  /\ UNCHANGED <<NotSearch, key_indices, phase, search_results, all_results,
                 attempts, searches, prevFailed, api_rotations>>

\* a variant that hands the answers over in the order the calls ended
GatherOfAsCompleted(order) ==
  LET launched == Launched(order, api_keys)
      InOrder(a) == \E i \in 1..Len(launched) : launched[i] = a
      ended == SelectSeq(finished, InOrder)
  IN [i \in 1..Len(ended) |-> tasks[ended[i]]]

\* the awaitables handed to asyncio.gather at lines 203 and 228, in the order
\* they were appended: gather returns their answers in that order
GatherOf(order) ==
  LET launched == Launched(order, api_keys)
  IN [i \in 1..Len(launched) |-> tasks[launched[i]]]

\* the gather of line 203 is done: lines 205-228; an exception out of the try
\* is re-raised by the except of line 298
WebGatherDone ==
  /\ phase = "web"
  /\ GatherReady(GatherOf(WebOrder))
  /\ LET g == Gather(GatherOf(WebOrder)) IN
       IF g.raised
       THEN Resume(SearchState("raised", tasks, search_results, <<>>, key_indices))
       ELSE Resume(EnterSocial(MergeWeb(search_results, g.results,
                                        Launched(WebOrder, api_keys)),
                               tasks, api_keys, key_indices))
  /\ UNCHANGED <<NotSearch, finished>>

\* the gather of line 228 is done: lines 230-296
SocialGatherDone ==
  /\ phase = "social"
  /\ GatherReady(GatherOf(SocialOrder))
  /\ LET g == Gather(GatherOf(SocialOrder)) IN
       IF g.raised
       THEN Resume(SearchState("raised", tasks, search_results, <<>>, key_indices))
       ELSE LET ag == Aggregate(MergeSocial(search_results, g.results,
                                            Launched(SocialOrder, api_keys)))
            IN Resume(SearchState("returned", tasks, ag.sr, ag.all, key_indices))
  /\ UNCHANGED <<NotSearch, finished>>

\* the key configurations of the searches: any of three adapters has a key
SearchRunProviders == {"GOOGLE", "SERPER", "YOUTUBE"}

InitSearch ==
  /\ GenerationIdle
  /\ api_keys \in UNION {[D -> {1}] : D \in SUBSET SearchRunProviders}
  /\ key_indices = [p \in DOMAIN api_keys |-> 0]
  /\ serper_api_keys = 0
  /\ current_serper_index = 0
  /\ keyLog = <<>>
  /\ reg = <<>>
  /\ selected = None
  /\ SearchRunIdle
  /\ RaceIdle
  /\ ScoreIdle
  /\ LateIdle
  /\ api_rotations = [p \in SearchRunProviders |-> 0]

NextSearch ==
  \/ StartSearch
  \/ \E ret \in WebSailorReturns : WebSailorDone(ret)
  \/ \E a \in Adapters : \E ret \in AdapterReturns(a) : AdapterDone(a, ret)
  \/ WebGatherDone
  \/ SocialGatherDone

SpecSearch == InitSearch /\ [][NextSearch]_vars

\* ------------------------------------------- search calls one after another
\* an orchestrator that is asked for keys and searched MaxSearches times, with
\* keys for web providers only; each adapter call ends rate-limited, without
\* credit, in a transport error, or with one record
CallProviders == {"FIRECRAWL", "GOOGLE"}

CallReturns ==
  {FailedWith(RateLimited), FailedWith(InsufficientCredit), FailedWith(Transport),
   OkReturn(<<LojaReal>>)}

InitCalls ==
  /\ GenerationIdle
  /\ api_keys \in UNION {[D -> 1..MaxSearchKeys] : D \in SUBSET CallProviders}
  /\ key_indices = [p \in DOMAIN api_keys |-> 0]
  /\ serper_api_keys = 0
  /\ current_serper_index = 0
  /\ keyLog = [p \in CallProviders |-> <<>>]
  /\ reg = <<>>
  /\ selected = None
  /\ SearchRunIdle
  /\ RaceIdle
  /\ ScoreIdle
  /\ LateIdle
  /\ api_rotations = [p \in CallProviders |-> 0]

\* get_next_api_key called from outside a search for a provider without keys
\* (the calls for the others are those of SpecKeys)
DirectKeyCall(provider) ==
  /\ phase \in {"idle", "returned", "raised"}
  /\ provider \notin DOMAIN api_keys
  /\ Len(keyLog[provider]) < MaxDirectCalls
  /\ GetNextApiKeyCall(provider)

NextCalls ==
  \/ StartSearch
  \/ SearchAgain
  \/ \E ret \in {FailedReturn, OkReturn(<<LojaReal>>)} : WebSailorDone(ret)
  \/ \E a \in Adapters, ret \in CallReturns : AdapterDone(a, ret)
  \/ WebGatherDone
  \/ \E provider \in CallProviders : DirectKeyCall(provider)

SpecCalls == InitCalls /\ [][NextCalls]_vars

\* ------------------------------------------------------ search properties
\* the three category lists of the result, one after the other
ReturnedRecords ==
  search_results.web_results \o search_results.social_results
    \o search_results.youtube_results

\* the records of the successful calls among the adapters of an order
RECURSIVE OkRecords(_)
OkRecords(order) ==
  IF order = <<>> THEN <<>>
  ELSE (IF tasks[Head(order)].kind = "ok" THEN tasks[Head(order)].results ELSE <<>>)
         \o OkRecords(Tail(order))

\* C15: no record of web_results, youtube_results, social_results or
\* viral_content of a returned result has a blocklist word, case ignored, in
\* title + content + url
C15_NoSimulatedRecordReturned ==
  phase = "returned" =>
    \A l \in {search_results.web_results, search_results.youtube_results,
              search_results.social_results, search_results.viral_content} :
      \A i \in 1..Len(l) : ~IsSimulated(l[i])

\* C16: no two records of the category lists of a returned result have the same URL
C16_NoTwoRecordsShareUrl ==
  phase = "returned" =>
    \A i, j \in 1..Len(ReturnedRecords) :
      i < j => ReturnedRecords[i].url # ReturnedRecords[j].url

\* C17: a search never ends in an exception because an adapter failed or raised;
\* when it returns every adapter call has ended, every record of every successful
\* adapter is in the merged list, and the others have added nothing to it
C17_FailedAdaptersDoNotAbort ==
  /\ phase # "raised"
  /\ phase = "returned" =>
       /\ \A a \in Adapters :
            /\ tasks[a].kind # "pending"
            /\ tasks[a].kind = "ok" =>
                 \A i \in 1..Len(tasks[a].results) :
                   \E j \in 1..Len(all_results) : all_results[j] = tasks[a].results[i]
       /\ Len(all_results) = Len(OkRecords(<<WEBSAILOR>> \o WebOrder \o SocialOrder))

\* C17 witness: one web adapter raised, the social one failed, and the record of
\* the web adapter that succeeded is in the merged list
C17_Witness ==
  /\ phase = "returned"
  /\ tasks["GOOGLE"].kind = "raised"
  /\ tasks["SERPER"] = OkReturn(<<LojaReal>>)
  /\ tasks["YOUTUBE"].kind = "failed"
  /\ tasks[WEBSAILOR].kind = "failed"
  /\ all_results = <<LojaReal>>

\* C18: nothing of a gather is merged while one of its calls is pending, in
\* whatever order the calls end, and what is merged is the records of the
\* successful calls, one call after the other in the order of the launch
C18_MergeAfterAllFinished ==
  /\ phase \in {"websailor", "web"} =>
       search_results.web_results = OkRecords(<<WEBSAILOR>>)
  /\ phase = "social" =>
       /\ \A i \in 1..Len(WebOrder) : tasks[WebOrder[i]].kind # "pending"
       /\ search_results.web_results = OkRecords(<<WEBSAILOR>> \o WebOrder)
       /\ search_results.youtube_results = <<>>
  /\ phase = "returned" =>
       /\ \A a \in Adapters : tasks[a].kind # "pending"
       /\ all_results = OkRecords(<<WEBSAILOR>> \o WebOrder \o SocialOrder)

\* C18 witness: the adapter launched last in its gather ended first, and the
\* merged list has the records in the order of the launch
C18_Witness ==
  /\ phase = "returned"
  /\ finished = <<"SERPER", "GOOGLE", "YOUTUBE">>
  /\ tasks["GOOGLE"] = OkReturn(<<LojaReal>>)
  /\ tasks["SERPER"] = OkReturn(<<GuiaReal>>)
  /\ tasks["YOUTUBE"] = OkReturn(<<ExemploProduto>>)
  /\ tasks[WEBSAILOR].kind = "failed"
  /\ all_results = <<LojaReal, GuiaReal, ExemploProduto>>

\* ========================================================== concurrency
\* Two calls of _generate_openrouter_with_tools on openrouter_grok in one event
\* loop.  The requests of line 563 are synchronous; a call gives way to the other
\* only at "await self._execute_real_search" (585), so a step of a caller runs
\* from one such await to the next, or to the return.
Callers == {"A", "B"}

\* the answers of the provider in this specification
RaceResponses == {"final", "tool"}

\* line 613: the cursor written on the final answer
NextClientIndexFromCursor(current_index, cursor, n) == (cursor + 1) % n

NextClientIndex(current_index, cursor, n) == (current_index + 1) % n

\* one pass of the while loop (558-615) of caller c with the locals "local" for
\* the answer resp
RacePass(c, local, resp) ==
  LET sent == [local EXCEPT !.iteration = @ + 1] IN
  IF resp = "final"
  THEN /\ callers' = [callers EXCEPT ![c] = [sent EXCEPT !.pc = "done", !.text = FinalText]]
       /\ current_client_index' =
            [current_client_index EXCEPT
               ![GROK] = NextClientIndex(local.current_index, @, total_keys[GROK])]
  ELSE /\ callers' = [callers EXCEPT ![c] = [sent EXCEPT !.pc = "searching"]]
       /\ UNCHANGED current_client_index

NotRace ==
  <<providers, total_keys, available, stack, status, result, callKind, maxIter,
    calls, reqBy, rlBy, okCount, loops, lastReq, prevReq, lastSearch, keyVars,
    selVars, searchVars, scoreVars, lateVars>>

\* a caller enters: lines 526-534 read the cursor and bind the client, then the
\* first pass runs
CallerStarts(c, resp) ==
  /\ callers[c].pc = "idle"
  /\ RacePass(c, [CallerIdle EXCEPT !.pc = "running",
                                    !.current_index = current_client_index[GROK],
                                    !.client = current_client_index[GROK]], resp)
  /\ UNCHANGED NotRace

\* the search a caller awaited is done: "continue" (606), then the loop ends at
\* the cap (558, 647) or the next pass runs
CallerSearchDone(c, resp) ==
  /\ callers[c].pc = "searching"
  /\ IF callers[c].iteration >= maxIter
     THEN /\ callers' = [callers EXCEPT ![c].pc = "done", ![c].text = LimitText]
          /\ UNCHANGED current_client_index
     ELSE RacePass(c, callers[c], resp)
  /\ UNCHANGED NotRace

InitRace ==
  /\ providers = ORProviders \cup {GROQ}
  /\ total_keys \in [ORProviders -> 1..MaxKeys]
  /\ total_keys[GROK] = total_keys[ORGEMINI]
  /\ available = [p \in GenProviders |-> InitiallyAvailable(p)]
  /\ current_client_index \in [ORProviders -> 0..(MaxKeys - 1)]
  /\ current_client_index[GROK] < total_keys[GROK]
  /\ current_client_index[ORGEMINI] = 0
  /\ maxIter \in 1..MaxIterations
  /\ stack = <<>>
  /\ status = "idle"
  /\ result = "none"
  /\ callKind = "none"
  /\ calls = 0
  /\ reqBy = [p \in GenProviders |-> 0]
  /\ rlBy = [p \in GenProviders |-> 0]
  /\ okCount = 0
  /\ loops = <<>>
  /\ lastReq = NoReq
  /\ prevReq = NoReq
  /\ lastSearch = <<>>
  /\ api_keys = <<>>
  /\ key_indices = <<>>
  /\ serper_api_keys = 0
  /\ current_serper_index = 0
  /\ keyLog = <<>>
  /\ reg = <<>>
  /\ selected = None
  /\ SearchIdle
  /\ ScoreIdle
  /\ LateIdle
  /\ callers = [c \in Callers |-> CallerIdle]

NextRace ==
  \/ \E c \in Callers, resp \in RaceResponses : CallerStarts(c, resp)
  \/ \E c \in Callers, resp \in RaceResponses : CallerSearchDone(c, resp)

SpecRace == InitRace /\ [][NextRace]_vars

\* both callers have returned the provider's final answer
BothAnswered == \A c \in Callers : callers[c].pc = "done" /\ callers[c].text = FinalText

\* C19: two concurrent calls that read the same cursor value use the same
\* credential, and when both have returned a final answer the cursor is one past
\* the value they read, not two: one of the two updates is lost
C19_LostUpdate ==
  \A a, b \in Callers :
    ( /\ a # b
      /\ callers[a].pc # "idle"
      /\ callers[b].pc # "idle"
      /\ callers[a].current_index = callers[b].current_index )
    => ( /\ callers[a].client = callers[b].client
         /\ BothAnswered =>
              current_client_index[GROK] =
                (callers[a].current_index + 1) % total_keys[GROK] )

\* C19 witness: a pool of two, both callers read cursor 0 and used credential 0,
\* both got their final answer, and the cursor is at 1 where two calls one after
\* the other leave it at 0
C19_Witness ==
  /\ total_keys[GROK] = 2
  /\ BothAnswered
  /\ callers["A"].current_index = 0
  /\ callers["B"].current_index = 0
  /\ callers["A"].client = 0
  /\ callers["B"].client = 0
  /\ current_client_index[GROK] = 1

\* =============================================================== scores
\* the virality formulas, lines 1265-1313.  A score is the fraction num / den.
ScoreCap == 10            \* min(10.0, ...)
VideoDivisor == 100000    \* line 1276
SocialDivisor == 10000    \* line 1293
TwitterDivisor == 5000    \* line 1310

Min2(a, b) == IF a <= b THEN a ELSE b

\* min(10.0, viral_score / divisor)
Normalized(viral_score, divisor) ==
  [num |-> Min2(ScoreCap * divisor, viral_score), den |-> divisor]

\* _calculate_viral_score, lines 1265-1279
CalculateViralScore(stats) ==
  Normalized(stats.viewCount + (stats.likeCount * 10) + (stats.commentCount * 20),
             VideoDivisor)

\* _calculate_social_viral_score, lines 1281-1296
CalculateSocialViralScore(post) ==
  Normalized((post.likes * 1) + (post.comments * 5) + (post.shares * 10)
               + (post.engagement_rate * 1000),
             SocialDivisor)

\* a variant in which quotes count against the score
CalculateTwitterViralScoreLessQuotes(m) ==
  Normalized((m.retweet_count * 10) + (m.like_count * 2) + (m.reply_count * 5)
               - (m.quote_count * 15),
             TwitterDivisor)

\* _calculate_twitter_viral_score, lines 1298-1313
CalculateTwitterViralScore(m) ==
  Normalized((m.retweet_count * 10) + (m.like_count * 2) + (m.reply_count * 5)
               + (m.quote_count * 15),
             TwitterDivisor)

\* the counts the formulas are called with: whole multiples of 5000, negative
\* ones among them; the engagement rate is a small whole number
Counts == {k * TwitterDivisor : k \in (0 - MaxMetric)..MaxMetric}
Rates == (0 - MaxMetric)..MaxMetric

VideoStats ==
  [kind : {"video"}, viewCount : Counts, likeCount : Counts, commentCount : Counts]
SocialPosts ==
  [kind : {"social"}, likes : Counts, comments : Counts, shares : Counts,
   engagement_rate : Rates]
TwitterMetrics ==
  [kind : {"twitter"}, retweet_count : Counts, like_count : Counts,
   reply_count : Counts, quote_count : Counts]

\* the metrics of the worked example: a video with a million views
ExampleStats ==
  [kind |-> "video", viewCount |-> 1000000, likeCount |-> 50000, commentCount |-> 5000]

\* ------------------------------------------------ viral content analyzer
\* ViralContentAnalyzer._calculate_viral_score, viral_content_analyzer.py lines
\* 189-236.  Its divisions are true divisions: a value is the fraction num / den
\* in lowest terms with den > 0.
Abs(n) == IF n < 0 THEN 0 - n ELSE n

RECURSIVE Gcd(_, _)
Gcd(a, b) == IF b = 0 THEN a ELSE Gcd(b, a % b)

Q(n, d) ==
  LET g == Gcd(Abs(n), d) IN [num |-> n \div g, den |-> d \div g]

QAdd(a, b) == Q((a.num * b.den) + (b.num * a.den), a.den * b.den)
QDiv(a, k) == Q(a.num, a.den * k)
QMul(a, k) == Q(a.num * k, a.den)
QLe(a, b) ==
  LET x == Q(a.num, a.den)
      y == Q(b.num, b.den)
  IN  x.num * y.den <= y.num * x.den
QEq(a, b) == Q(a.num, a.den) = Q(b.num, b.den)
QMin(a, b) == IF QLe(a, b) THEN a ELSE b

\* platform == 'youtube', lines 193-200
AnalyzerYoutubeScore(content) ==
  LET views == content.view_count
      likes == content.like_count
      comments == content.comment_count
      s == QAdd(QAdd(Q(views, 1000), Q(likes, 100)), Q(comments, 10))
  IN  QMin(Q(10, 1), QDiv(s, 100))

\* platform in ['instagram', 'facebook'], lines 202-209
AnalyzerFeedScore(content) ==
  LET likes == content.likes
      comments == content.comments
      shares == content.shares
      s == QAdd(QAdd(Q(likes, 100), Q(comments, 10)), Q(shares, 5))
  IN  QMin(Q(10, 1), QDiv(s, 50))

\* platform == 'twitter', lines 211-218
AnalyzerTwitterScore(content) ==
  LET retweets == content.retweets
      likes == content.likes
      replies == content.replies
      s == QAdd(QAdd(Q(retweets, 10), Q(likes, 50)), Q(replies, 5))
  IN  QMin(Q(10, 1), QDiv(s, 20))

\* platform == 'tiktok', lines 220-227
AnalyzerTikTokScore(content) ==
  LET views == content.view_count
      likes == content.likes
      shares == content.shares
      s == QAdd(QAdd(Q(views, 10000), Q(likes, 500)), Q(shares, 100))
  IN  QMin(Q(10, 1), QDiv(s, 50))

\* any other platform, lines 229-232: relevance * 10, returned as it is
AnalyzerWebScore(content) == QMul(content.relevance_score, 10)

AnalyzerCalculateViralScore(content, platform) ==
  IF platform = "youtube" THEN AnalyzerYoutubeScore(content)
  ELSE IF platform \in {"instagram", "facebook"} THEN AnalyzerFeedScore(content)
  ELSE IF platform = "twitter" THEN AnalyzerTwitterScore(content)
  ELSE IF platform = "tiktok" THEN AnalyzerTikTokScore(content)
  ELSE AnalyzerWebScore(content)

\* the relevance of a web record: tenths from 0 up to MaxMetric
Relevances == {Q(k, 10) : k \in 0..(10 * MaxMetric)}

YoutubeContents ==
  [kind : {"content"}, platform : {"youtube"}, view_count : Counts,
   like_count : Counts, comment_count : Counts]
   \cup {[kind |-> "content", platform |-> "youtube",
          view_count |-> ExampleStats.viewCount, like_count |-> ExampleStats.likeCount,
          comment_count |-> ExampleStats.commentCount]}
FeedContents ==
  [kind : {"content"}, platform : {"instagram", "facebook"}, likes : Counts,
   comments : Counts, shares : Counts]
TwitterContents ==
  [kind : {"content"}, platform : {"twitter"}, retweets : Counts, likes : Counts,
   replies : Counts]
TikTokContents ==
  [kind : {"content"}, platform : {"tiktok"}, view_count : Counts, likes : Counts,
   shares : Counts]
WebContents ==
  [kind : {"content"}, platform : {"web"}, relevance_score : Relevances]
Contents ==
  YoutubeContents \cup FeedContents \cup TwitterContents \cup TikTokContents
    \cup WebContents

NotScore == <<genVars, keyVars, selVars, searchVars, raceVars, metrics, lateVars>>

CalculateViralScoreCall ==
  /\ score = <<>>
  /\ metrics.kind = "video"
  /\ score' = CalculateViralScore(metrics)
  /\ UNCHANGED NotScore

CalculateSocialViralScoreCall ==
  /\ score = <<>>
  /\ metrics.kind = "social"
  /\ score' = CalculateSocialViralScore(metrics)
  /\ UNCHANGED NotScore

CalculateTwitterViralScoreCall ==
  /\ score = <<>>
  /\ metrics.kind = "twitter"
  /\ score' = CalculateTwitterViralScore(metrics)
  /\ UNCHANGED NotScore

AnalyzerCalculateViralScoreCall ==
  /\ score = <<>>
  /\ metrics.kind = "content"
  /\ score' = AnalyzerCalculateViralScore(metrics, metrics.platform)
  /\ UNCHANGED NotScore

InitScore ==
  /\ GenerationIdle
  /\ api_keys = <<>>
  /\ key_indices = <<>>
  /\ serper_api_keys = 0
  /\ current_serper_index = 0
  /\ keyLog = <<>>
  /\ reg = <<>>
  /\ selected = None
  /\ SearchIdle
  /\ RaceIdle
  /\ LateIdle
  /\ metrics \in VideoStats \cup {ExampleStats} \cup SocialPosts \cup TwitterMetrics
                  \cup Contents
  /\ score = <<>>

NextScore ==
  \/ CalculateViralScoreCall
  \/ CalculateSocialViralScoreCall
  \/ CalculateTwitterViralScoreCall
  \/ AnalyzerCalculateViralScoreCall

SpecScore == InitScore /\ [][NextScore]_vars

\* C20: no virality score is negative, whatever whole numbers the metrics are
C20_ScoreNeverNegative ==
  score # <<>> => score.num >= 0

\* the score the function chosen by the record's kind gives
ScoreOf(m) ==
  IF m.kind = "video" THEN CalculateViralScore(m)
  ELSE IF m.kind = "social" THEN CalculateSocialViralScore(m)
  ELSE IF m.kind = "twitter" THEN CalculateTwitterViralScore(m)
  ELSE AnalyzerCalculateViralScore(m, m.platform)

MetricFields(m) == DOMAIN m \ {"kind", "platform"}

NonNegative(m) == \A f \in MetricFields(m) : m[f] >= 0

\* C21: every virality score, the generic-web one included, is at most 10
C21_ScoreAtMostTen ==
  score # <<>> => QLe(score, Q(10, 1))

\* min(10, (views + likes*10 + comments*20) / 100000)
VideoFormula(views, likes, comments) ==
  QMin(Q(10, 1), Q(views + (likes * 10) + (comments * 20), 100000))

\* C22: for non-negative metrics both video scorers give
\* min(10, (views + likes*10 + comments*20) / 100000), hence the same score, and
\* the worked example gives 10
C22_VideoScorersAgree ==
  /\ (score # <<>> /\ metrics.kind = "video" /\ NonNegative(metrics)) =>
       QEq(score, VideoFormula(metrics.viewCount, metrics.likeCount,
                               metrics.commentCount))
  /\ (score # <<>> /\ metrics.kind = "content" /\ metrics.platform = "youtube"
        /\ NonNegative(metrics)) =>
       /\ QEq(score, VideoFormula(metrics.view_count, metrics.like_count,
                                  metrics.comment_count))
       /\ QEq(score, CalculateViralScore([kind |-> "video",
                                          viewCount |-> metrics.view_count,
                                          likeCount |-> metrics.like_count,
                                          commentCount |-> metrics.comment_count]))
  /\ (score # <<>> /\ metrics = ExampleStats) => QEq(score, Q(10, 1))

\* the values a metric can be raised to
FieldValues(f) ==
  IF f = "relevance_score" THEN Relevances
  ELSE IF f = "engagement_rate" THEN Rates
  ELSE Counts

Above(f, a, b) ==
  IF f = "relevance_score" THEN QLe(a, b) /\ ~QEq(a, b) ELSE a < b

\* the records that differ from m in one metric, which is greater
RaisedInOne(m) ==
  UNION {{[m EXCEPT ![f] = v] : v \in {w \in FieldValues(f) : Above(f, m[f], w)}} :
           f \in MetricFields(m)}

\* C23: raising one metric of a record, the others fixed, never lowers its score
C23_MonotoneInEachMetric ==
  score # <<>> => \A m2 \in RaisedInOne(metrics) : QLe(score, ScoreOf(m2))

\* C23 witness: a score below the cap that a raised metric lifts, and a score at
\* the cap that a raised metric leaves there
C23_Witness ==
  /\ score # <<>>
  /\ metrics.kind = "twitter"
  /\ \E m2 \in RaisedInOne(metrics) :
       ~QLe(ScoreOf(m2), score) /\ ~QEq(ScoreOf(m2), Q(ScoreCap, 1))
  /\ \E m2 \in RaisedInOne(metrics) :
       QEq(ScoreOf(m2), Q(ScoreCap, 1)) /\ ~QEq(score, Q(ScoreCap, 1))
  /\ metrics.quote_count < 0

\* ------------------------------------------- statistics and record URLs
PairwiseDistinctUrls(l) ==
  \A i, j \in 1..Len(l) : i # j => l[i].url # l[j].url

\* C24: unique_urls <= total_sources in every result, with equality exactly when
\* the URLs of the counted records are pairwise distinct
C24_UniqueUrlsBound ==
  phase = "returned" =>
    /\ search_results.statistics.unique_urls <= search_results.statistics.total_sources
    /\ (search_results.statistics.unique_urls = search_results.statistics.total_sources)
         <=> PairwiseDistinctUrls(all_results)

\* C25: total_sources is the number of records left in the returned web, social
\* and video lists after the anti-simulation filter
C25_TotalSourcesPostFilter ==
  phase = "returned" =>
    search_results.statistics.total_sources = Len(ReturnedRecords)

\* C26: every record a successful adapter hands over, and every record of the
\* returned result, has a non-empty URL
C26_EveryRecordHasUrl ==
  /\ \A a \in DOMAIN tasks :
       tasks[a].kind = "ok" =>
         \A i \in 1..Len(tasks[a].results) : tasks[a].results[i].url # <<>>
  /\ phase = "returned" =>
       \A i \in 1..Len(ReturnedRecords) : ReturnedRecords[i].url # <<>>

\* ------------------------------------------ failures of search adapters
\* the providers whose keys _load_all_api_keys reads (line 88), as far as the
\* search has an adapter for them
CredentialProviders == Adapters \ {WEBSAILOR}

LaunchDone == phase \in {"web", "social", "returned", "raised"}

\* C27: an adapter answered HTTP 429 is retried with the provider's next
\* credential, at most pool-size times in the call: when the search has returned
\* with the provider rate-limited, every credential of its pool was tried
C27_RateLimitedRetriedThroughPool ==
  \A a \in DOMAIN api_keys :
    /\ attempts # <<>> => attempts[a] <= api_keys[a]
    /\ (phase = "returned" /\ tasks[a] = FailedWith(RateLimited)) =>
         attempts[a] = api_keys[a]

\* C28: an adapter that fails for want of credit or in transport is called once
\* in that search call, the failure changes no key pool, and the next search
\* call launches the provider again
C28_FailureNoRetryStillEligible ==
  /\ [](\A a \in DOMAIN tasks :
          /\ (tasks[a].kind = "failed"
                /\ tasks[a].error \in {InsufficientCredit, Transport}) => attempts[a] = 1
          /\ (a \in prevFailed /\ LaunchDone) => attempts[a] = 1)
  /\ [][api_keys' = api_keys]_vars

\* C28 witness: FIRECRAWL failed without credit in the first search and is
\* pending again in the second
C28_Witness ==
  /\ searches = 2
  /\ "FIRECRAWL" \in prevFailed
  /\ phase = "web"
  /\ tasks["FIRECRAWL"] = Pending
  /\ attempts["FIRECRAWL"] = 1

\* what get_next_api_key and the searches do for the providers in ps that have
\* no key: no credential returned, no cursor and no rotation counter changed, no
\* adapter launched
DisabledWithoutKey(ps) ==
  \A p \in ps \ DOMAIN api_keys :
    /\ p \in DOMAIN keyLog =>
         /\ \A k \in 1..Len(keyLog[p]) : keyLog[p][k] = None
         /\ api_rotations[p] = 0
    /\ p \in DOMAIN tasks => (tasks[p] = NotLaunched /\ attempts[p] = 0)

KeyCallChangesNothing(ps) ==
  \A p \in (ps \ DOMAIN api_keys) \cap DOMAIN keyLog :
    keyLog'[p] # keyLog[p] =>
      (key_indices' = key_indices /\ api_rotations' = api_rotations)

\* C30 as stated: every provider without configured credential, ALIBABA_WEBSAILOR
\* among them, gets no credential and is never launched
C30_NoKeyNeverLaunched ==
  /\ [](DisabledWithoutKey(Adapters))
  /\ [][KeyCallChangesNothing(Adapters)]_vars

\* C30 amended: every provider whose keys the configuration reads (FIRECRAWL,
\* JINA, GOOGLE, EXA, SERPER, YOUTUBE) and that has no configured credential gets
\* no credential from get_next_api_key, which then changes no cursor and no
\* rotation counter, and no search call launches its adapter; ALIBABA_WEBSAILOR,
\* which takes no credential, is called in every search
C30_NoKeyNeverLaunchedButWebSailor ==
  /\ [](DisabledWithoutKey(CredentialProviders))
  /\ [][KeyCallChangesNothing(CredentialProviders)]_vars
  /\ [](phase # "idle" => attempts[WEBSAILOR] = 1)

\* C30 witness: FIRECRAWL has no key, was asked for one, and two searches ran
\* with GOOGLE launched
C30_Witness ==
  /\ "FIRECRAWL" \notin DOMAIN api_keys
  /\ "GOOGLE" \in DOMAIN api_keys
  /\ keyLog["FIRECRAWL"] = <<None>>
  /\ searches = 2
  /\ phase = "returned"
  /\ tasks["GOOGLE"].kind = "ok"
  /\ tasks["FIRECRAWL"] = NotLaunched

KeysIdle ==
  /\ api_keys = <<>>
  /\ key_indices = <<>>
  /\ serper_api_keys = 0
  /\ current_serper_index = 0
  /\ keyLog = <<>>

SelIdle ==
  /\ reg = <<>>
  /\ selected = None

EarlierIdle ==
  /\ GenerationIdle
  /\ KeysIdle
  /\ SelIdle
  /\ SearchIdle
  /\ RaceIdle
  /\ ScoreIdle

\* environ[0] is <PROVIDER>_API_KEY and environ[k] is <PROVIDER>_API_KEY_k of
\* one provider; os.getenv gives None for an unset name, and a name may be set
\* to the empty string.  A credential is written as the suffix it was read from.
EnvValues == {None, "", "key"}
EnvSuffixes == 0..MaxEnvSuffix
Getenv(env, k) == IF k \in DOMAIN env THEN env[k] ELSE None
Truthy(v) == v \notin {None, ""}

\* the while loop of lines 99-106 (and of visual_content_capture.py 54-61)
RECURSIVE NumberedKeys(_, _)
NumberedKeys(env, counter) ==
  IF Truthy(Getenv(env, counter))
  THEN <<counter>> \o NumberedKeys(env, counter + 1)
  ELSE <<>>

\* RealSearchOrchestrator._load_all_api_keys, the body of the loop over providers
LoadAllApiKeys(env) ==
  (IF Truthy(Getenv(env, 0)) THEN <<0>> ELSE <<>>) \o NumberedKeys(env, 1)

\* VisualContentCapture._load_serper_keys
LoadSerperKeys(env) ==
  (IF Truthy(Getenv(env, 0)) THEN <<0>> ELSE <<>>) \o NumberedKeys(env, 1)

\* EnhancedAIManager._initialize_providers: the four names of lines 67-72 (and
\* 103-108), then 'key for key in openrouter_keys if key'
OpenRouterKeys(env) ==
  LET Keep(k) == Truthy(Getenv(env, k))
  IN SelectSeq(<<0, 1, 2, 3>>, Keep)

SEARCHLOADER == "_load_all_api_keys"
SERPERLOADER == "_load_serper_keys"
GENLOADER == "_initialize_providers"
Loaders == {SEARCHLOADER, SERPERLOADER, GENLOADER}

NotLoaded == [done |-> FALSE, keys |-> <<>>, modulus |-> 0]
\* the modulus is len(self.api_keys[provider]) at line 126, len(self.serper_api_keys)
\* at visual_content_capture.py 72 and len(provider["clients"]) at lines 527-528
Pool(keys) == [done |-> TRUE, keys |-> keys, modulus |-> Len(keys)]

NotLoad == <<genVars, keyVars, selVars, searchVars, raceVars, scoreVars, environ,
             formatVars, rankVars, fileVars>>

LoadAllApiKeysCall ==
  /\ ~loaded[SEARCHLOADER].done
  /\ loaded' = [loaded EXCEPT ![SEARCHLOADER] = Pool(LoadAllApiKeys(environ))]
  /\ UNCHANGED NotLoad

LoadSerperKeysCall ==
  /\ ~loaded[SERPERLOADER].done
  /\ loaded' = [loaded EXCEPT ![SERPERLOADER] = Pool(LoadSerperKeys(environ))]
  /\ UNCHANGED NotLoad

InitializeProvidersCall ==
  /\ ~loaded[GENLOADER].done
  /\ loaded' = [loaded EXCEPT ![GENLOADER] = Pool(OpenRouterKeys(environ))]
  /\ UNCHANGED NotLoad

InitLoad ==
  /\ EarlierIdle
  /\ FormatIdle
  /\ RankIdle
  /\ FilesIdle
  /\ environ \in [EnvSuffixes -> EnvValues]
  /\ loaded = [l \in Loaders |-> NotLoaded]

NextLoad ==
  \/ LoadAllApiKeysCall
  \/ LoadSerperKeysCall
  \/ InitializeProvidersCall

SpecLoad == InitLoad /\ [][NextLoad]_vars

\* the pool the naming convention describes: the main key if it is set, then
\* the numbered keys up to the first number that is not set
InConvention(env, k) ==
  /\ Truthy(Getenv(env, k))
  /\ \A j \in 1..k : Truthy(Getenv(env, j))

ConventionPool(env) ==
  LET S == {k \in DOMAIN env : InConvention(env, k)}
  IN CHOOSE q \in [1..Cardinality(S) -> S] :
       \A i, j \in 1..Cardinality(S) : i < j => q[i] < q[j]

\* C31: the pool of every loader (search providers, Serper image search,
\* generation providers) is the main key followed by the numbered keys up to the
\* first missing number, so no key after a gap is in it, and the rotation
\* modulus is the length of that list
C31_PoolIsUnbrokenPrefix ==
  \A l \in Loaders :
    loaded[l].done =>
      /\ loaded[l].keys = ConventionPool(environ)
      /\ loaded[l].modulus = Len(ConventionPool(environ))

\* ======================================== the block for the tool message
\* _format_search_results_for_ai: the caps of the slices at lines 699, 708, 718,
\* 727 and 737, and of the snippet at line 702
WebCap == 10
YoutubeCap == 5
SocialCap == 5
ViralCap == 5
ScreenshotCap == 5
SnippetCap == 200

\* a variant of the slice that takes the whole list
SliceAll(l, k) == l

\* l[:k]
Slice(l, k) == SubSeq(l, 1, Min2(k, Len(l)))

\* one line of the block; a section is a heading (n = 0) and its numbered
\* entries, each with the title (or the path) and the length of the summary printed
Heading(name) == [section |-> name, n |-> 0, title |-> 0, resumo |-> 0]

\* 'if <list>:' then the heading and 'for i, result in enumerate(<list>[:cap], 1)'
FormatSection(name, l, cap) ==
  IF l = <<>> THEN <<>>
  ELSE <<Heading(name)>> \o
       [i \in 1..Len(Slice(l, cap)) |->
          [section |-> name, n |-> i, title |-> Slice(l, cap)[i].title,
           resumo |-> IF name = "web"
                      THEN Len(Slice(Slice(l, cap)[i].snippet, SnippetCap)) ELSE 0]]

FormatSearchResultsForAi(sr) ==
  <<[section |-> "header", n |-> 0, title |-> sr.statistics.total_sources, resumo |-> 0]>>
    \o FormatSection("web", sr.web_results, WebCap)
    \o FormatSection("youtube", sr.youtube_results, YoutubeCap)
    \o FormatSection("social", sr.social_results, SocialCap)
    \o FormatSection("viral", sr.viral_content, ViralCap)
    \o FormatSection("screenshots", sr.screenshots_captured, ScreenshotCap)

\* the records of a list are told apart by their title; the summary of every
\* other one is longer than the cap
SnippetOf(t) == [j \in 1..(IF t % 2 = 0 THEN SnippetCap + 50 ELSE 20) |-> "x"]
Entry(t) == [title |-> t, snippet |-> SnippetOf(t)]
Ascending(n) == [i \in 1..n |-> Entry(i)]
Descending(n) == [i \in 1..n |-> Entry(n + 1 - i)]
ListsUpTo(n) == {Ascending(k) : k \in 0..n} \cup {Descending(k) : k \in 0..n}

FormatInputs ==
  {[web_results |-> w, youtube_results |-> y, social_results |-> so,
    viral_content |-> v, screenshots_captured |-> sc,
    statistics |-> [total_sources |-> Len(w) + Len(y) + Len(so)]] :
     w \in ListsUpTo(MaxWebLen), y \in {Ascending(k) : k \in 0..MaxSectionLen},
     so \in {Descending(k) : k \in 0..MaxSectionLen},
     v \in {Ascending(k) : k \in {0, 1, MaxSectionLen}},
     sc \in {Ascending(k) : k \in {0, MaxSectionLen}}}

NotFormat == <<genVars, keyVars, selVars, searchVars, raceVars, scoreVars, loadVars,
               to_format, rankVars, fileVars>>

FormatSearchResultsForAiCall ==
  /\ formatted = <<>>
  /\ formatted' = FormatSearchResultsForAi(to_format)
  /\ UNCHANGED NotFormat

InitFormat ==
  /\ EarlierIdle
  /\ LoadIdle
  /\ RankIdle
  /\ FilesIdle
  /\ to_format \in FormatInputs
  /\ formatted = <<>>

NextFormat == FormatSearchResultsForAiCall

SpecFormat == InitFormat /\ [][NextFormat]_vars

\* the titles of the numbered entries of a section, in the order of the block
EntriesOf(name) ==
  LET IsEntry(line) == line.section = name /\ line.n > 0
      lines == SelectSeq(formatted, IsEntry)
  IN [i \in 1..Len(lines) |-> lines[i].title]

TitlesOf(l) == [i \in 1..Len(l) |-> l[i].title]

\* the first entries of a list appear, in the list's order, and at most cap of them
CappedInOrder(name, l, cap) ==
  /\ Len(EntriesOf(name)) <= cap
  /\ Len(EntriesOf(name)) <= Len(l)
  /\ EntriesOf(name) = SubSeq(TitlesOf(l), 1, Len(EntriesOf(name)))
  /\ Len(l) <= cap => Len(EntriesOf(name)) = Len(l)

\* C33: whatever the size of the result, the block has at most 10 web entries,
\* 5 video entries, 5 social entries and 5 viral entries, each section being the
\* first records of its list in the list's order
C33_SectionsCapped ==
  formatted # <<>> =>
    /\ CappedInOrder("web", to_format.web_results, 10)
    /\ CappedInOrder("youtube", to_format.youtube_results, 5)
    /\ CappedInOrder("social", to_format.social_results, 5)
    /\ CappedInOrder("viral", to_format.viral_content, 5)

\* a block built from a result whose four lists are all longer than their caps
C33_Witness ==
  /\ formatted # <<>>
  /\ Len(to_format.web_results) > 10
  /\ Len(to_format.youtube_results) > 5
  /\ Len(to_format.social_results) > 5
  /\ Len(to_format.viral_content) > 5
  /\ Len(EntriesOf("web")) = 10
  /\ Len(EntriesOf("viral")) = 5

\* ================================================ the order of the merge
\* the records an adapter call contributed: those of a successful answer
Block(a) == IF tasks[a].kind = "ok" THEN tasks[a].results ELSE <<>>

RECURSIVE Blocks(_)
Blocks(order) ==
  IF order = <<>> THEN <<>> ELSE Block(Head(order)) \o Blocks(Tail(order))

\* the web adapters of the fan-out in the order their calls ended
WebCompleted ==
  LET IsWeb(a) == \E i \in 1..Len(WebOrder) : WebOrder[i] = a
  IN SelectSeq(finished, IsWeb)

\* the web fan-out has been merged into web_results
WebMerged == phase \in {"social", "returned"}

\* the list of all records is the WebSailor block, the blocks of the web fan-out
\* in the given order, and the block of the social fan-out
MergedInOrder(web) ==
  /\ phase = "social" =>
       search_results.web_results = Block(WEBSAILOR) \o Blocks(web)
  /\ phase = "returned" =>
       all_results = Block(WEBSAILOR) \o Blocks(web) \o Blocks(Launched(SocialOrder, api_keys))

\* C32 as stated: the records of each adapter are contiguous in the merged list
\* and the blocks follow the order in which the adapter calls completed
C32_BlocksInCompletionOrder ==
  WebMerged => MergedInOrder(WebCompleted)

\* C32 amended: the records of each adapter are contiguous and the blocks follow
\* the order in which the calls were launched, whatever order they completed in
C32_BlocksInLaunchOrder ==
  WebMerged => MergedInOrder(Launched(WebOrder, api_keys))

\* a merged fan-out of two adapters that answered different records, the later
\* launched one having completed first
C32_Witness ==
  /\ WebMerged
  /\ tasks["GOOGLE"].kind = "ok" /\ tasks["SERPER"].kind = "ok"
  /\ tasks["GOOGLE"].results # <<>> /\ tasks["SERPER"].results # <<>>
  /\ tasks["GOOGLE"].results # tasks["SERPER"].results
  /\ WebCompleted = <<"SERPER", "GOOGLE">>

\* ============================================== generate_text and its fallback
\* a generate_text frame waits in its except block for a nested generate_text
\* that runs on the very provider that has just failed
ReselectsFailedProvider ==
  \E i \in 1..(Len(stack) - 1) :
    /\ stack[i].fn = "gt" /\ stack[i].at = "exc"
    /\ stack[i + 1].fn = "gt"
    /\ stack[i + 1].key = stack[i].key

\* C34: generate_text ends by returning a text whatever the providers answer,
\* and its automatic fallback never selects again the provider that just failed
C34_GenerateTextReturnsText ==
  callKind = "gt" =>
    /\ status # "raised"
    /\ status = "returned" => result \in Texts
    /\ ~ReselectsFailedProvider

\* C35: the tool loops one generation call starts follow the fallback chain in
\* priority order (openrouter_grok, openrouter_gemini, gemini) and no provider's
\* tool loop is started twice, whatever the fallback provider answers
C35_ChainInOrderEachLoopOnce ==
  \A i, j \in 1..Len(loops) :
    i < j => Priority(loops[i]) < Priority(loops[j])

\* a generate_text call has ended, every request of it failed, and they went to
\* an OpenRouter provider
AllFailedOnOpenRouter ==
  /\ callKind = "gt"
  /\ Finished
  /\ okCount = 0
  /\ lastReq.prov \in ORProviders

\* C36: when every request of a generate_text call on an OpenRouter provider with
\* n credentials fails, the provider was asked n times and no more, each request
\* with the credential after the one before it (cyclically), and the cursor is
\* back where the call found it: one past the credential of the n-th request
C36_EachCredentialOnce ==
  AllFailedOnOpenRouter =>
    LET p == lastReq.prov
        n == total_keys[p]
    IN /\ reqBy[p] = n
       /\ prevReq.prov = p => lastReq.cred = (prevReq.cred + 1) % n
       /\ current_client_index[p] = (lastReq.cred + 1) % n

\* ===================================== the cursor after a final answer
\* a generate_with_active_search call has returned the final answer of an
\* OpenRouter provider
FinalOnOpenRouter ==
  /\ callKind = "gwas"
  /\ status = "returned"
  /\ result = FinalText
  /\ lastReq.prov \in ORProviders

\* a tool loop that has had no answer yet holds the credential at the cursor
BoundAtCursor ==
  (Suspended("or", "loop") /\ Top(stack).answered = 0) =>
    Top(stack).ci = current_client_index[Top(stack).key]

\* after the final answer the cursor is one past the credential of the call
OnePastTheCredential ==
  FinalOnOpenRouter =>
    current_client_index[lastReq.prov] = (lastReq.cred + 1) % total_keys[lastReq.prov]

\* a call that starts on the provider whose final answer ended the call before
\* it runs with the next credential
NextCallNextCredential ==
  (/\ FinalOnOpenRouter
   /\ calls' = calls + 1
   /\ callKind' = "gwas"
   /\ stack' # <<>>
   /\ Top(stack').fn = "or"
   /\ Top(stack').key = lastReq.prov)
  => Top(stack').ci = (lastReq.cred + 1) % total_keys[lastReq.prov]

\* C37: a generation call that ends with the final answer of an OpenRouter
\* provider leaves that provider's cursor exactly one past (modulo the pool) the
\* cursor it found, however many tool iterations it ran, so that successive
\* successful calls run with successive credentials
C37_FinalAnswerAdvancesByOne ==
  /\ [](BoundAtCursor /\ OnePastTheCredential)
  /\ [][NextCallNextCredential]_vars

\* the second of two calls on a pool of two ended with a final answer after a
\* tool iteration, with the second credential, and the cursor is back at the first
C37_Witness ==
  /\ FinalOnOpenRouter
  /\ calls = 2
  /\ total_keys[lastReq.prov] = 2
  /\ lastReq.cred = 1
  /\ lastReq.iter >= 2
  /\ current_client_index[lastReq.prov] = 0

\* ============================================ what the filter leaves alone
\* the record has a blocklist marker in its lowercase title + content + url
HasMarker(r) == \E word \in Blocklist : Contains(Lower(r.title \o r.content \o r.url), word)

\* the same question, answered once for each record an adapter can return
MarkedAdapterRecords == {r \in AdapterRecords : HasMarker(r)}
Marked(r) == IF r \in AdapterRecords THEN r \in MarkedAdapterRecords ELSE HasMarker(r)

Unmarked(r) == ~Marked(r)

\* a is b with some records left out, the others in b's order
RECURSIVE IsSubSeq(_, _)
IsSubSeq(a, b) ==
  IF a = <<>> THEN TRUE
  ELSE IF b = <<>> THEN FALSE
  ELSE IF Head(a) = Head(b) THEN IsSubSeq(Tail(a), Tail(b))
  ELSE IsSubSeq(a, Tail(b))

\* the category lists as the merges left them, before the filter
GatheredWeb == Block(WEBSAILOR) \o Blocks(Launched(WebOrder, api_keys))
GatheredYoutube ==
  LET IsYoutube(a) == PlatformOf(a) = "youtube"
  IN Blocks(SelectSeq(Launched(SocialOrder, api_keys), IsYoutube))
GatheredSocial ==
  LET IsOther(a) == PlatformOf(a) # "youtube"
  IN Blocks(SelectSeq(Launched(SocialOrder, api_keys), IsOther))

\* the filter took nothing but marked records out of a list and moved none
OnlyMarkedRemoved(before, after) ==
  /\ IsSubSeq(after, before)
  /\ SelectSeq(after, Unmarked) = SelectSeq(before, Unmarked)

\* C38: the anti-simulation filter removes only blocklisted records: every record
\* without a marker stays in the category list it was in, and the records that
\* stay keep their relative order
C38_FilterKeepsUnmarked ==
  phase = "returned" =>
    /\ OnlyMarkedRemoved(GatheredWeb, search_results.web_results)
    /\ OnlyMarkedRemoved(GatheredYoutube, search_results.youtube_results)
    /\ OnlyMarkedRemoved(GatheredSocial, search_results.social_results)

\* a returned search whose web list held a marked record between two different
\* unmarked ones
C38_Witness ==
  /\ phase = "returned"
  /\ \E i, j, k \in 1..Len(GatheredWeb) :
       /\ i < j /\ j < k
       /\ Unmarked(GatheredWeb[i]) /\ Marked(GatheredWeb[j]) /\ Unmarked(GatheredWeb[k])
       /\ GatheredWeb[i] # GatheredWeb[k]
  /\ Len(search_results.web_results) = 2

\* ================================================== the viral selection
\* _identify_viral_content on its own.  A URL is a text: Url(0) is '', the
\* default of content.get('url', ''); the title of a record is its place in the
\* list handed over, which tells the records apart.
Url(k) == [i \in 1..k |-> "u"]

Post(i, u, v) == [title |-> i, url |-> Url(u), viral_score |-> v]

\* every list of up to MaxSmallLen records over three URLs and three scores
SmallLists ==
  UNION {{[i \in 1..n |-> Post(i, us[i], vs[i])] : us \in [1..n -> 0..2], vs \in [1..n -> 0..2]} :
           n \in 0..MaxSmallLen}

\* longer lists: the scores rising, falling, all equal or in cycles of three; the
\* URLs all different, in pairs, or every fourth one missing
ScorePatterns == {"rising", "falling", "equal", "cycle"}
UrlPatterns == {"distinct", "pairs", "holes"}
PatternScore(sp, i, n) ==
  CASE sp = "rising" -> i [] sp = "falling" -> n - i [] sp = "equal" -> 1
    [] sp = "cycle" -> i % 3
PatternUrl(up, i) ==
  CASE up = "distinct" -> i [] up = "pairs" -> (i + 1) \div 2
    [] up = "holes" -> IF i % 4 = 0 THEN 0 ELSE i
LongLists ==
  {[i \in 1..n |-> Post(i, PatternUrl(up, i), PatternScore(sp, i, n))] :
     n \in 0..MaxViralLen, sp \in ScorePatterns, up \in UrlPatterns}

NotRanked == [done |-> FALSE, viral_content |-> <<>>]

NotRank == <<genVars, keyVars, selVars, searchVars, raceVars, scoreVars, loadVars,
             formatVars, to_rank, fileVars>>

IdentifyViralContentCall ==
  /\ ~ranked.done
  /\ ranked' = [done |-> TRUE, viral_content |-> IdentifyViralContent(to_rank)]
  /\ UNCHANGED NotRank

InitViral ==
  /\ EarlierIdle
  /\ LoadIdle
  /\ FormatIdle
  /\ FilesIdle
  /\ to_rank \in SmallLists \cup LongLists
  /\ ranked = NotRanked

NextViral == IdentifyViralContentCall

SpecViral == InitViral /\ [][NextViral]_vars

\* the records returned, and the records handed over that were left out
Returned == ranked.viral_content
UrlsReturned == {Returned[i].url : i \in 1..Len(Returned)}
Omitted ==
  {to_rank[i] : i \in {j \in 1..Len(to_rank) :
                         \A k \in 1..Len(Returned) : Returned[k] # to_rank[j]}}

\* C39: _identify_viral_content returns at most 10 of the records it was given,
\* each with a URL, no two with the same URL, in non-increasing order of
\* viral_score with equal scores in the order of the input, and no record left
\* out whose URL is not in the result scores higher than a returned one
C39_TopTenDistinctByScore ==
  ranked.done =>
    /\ Len(Returned) <= 10
    /\ \A i \in 1..Len(Returned) :
         /\ Returned[i].url # <<>>
         /\ \E j \in 1..Len(to_rank) : to_rank[j] = Returned[i]
    /\ \A i, j \in 1..Len(Returned) :
         i < j =>
           /\ Returned[i].url # Returned[j].url
           /\ Returned[i].viral_score >= Returned[j].viral_score
           /\ Returned[i].viral_score = Returned[j].viral_score
                => Returned[i].title < Returned[j].title
    /\ \A r \in Omitted :
         (r.url # <<>> /\ r.url \notin UrlsReturned) =>
           \A i \in 1..Len(Returned) : r.viral_score <= Returned[i].viral_score

\* ten records returned out of more with a URL of their own, two of the
\* returned ones with the same score, and a record without URL left out
C39_Witness ==
  /\ ranked.done
  /\ Len(Returned) = 10
  /\ \E r \in Omitted : r.url # <<>> /\ r.url \notin UrlsReturned
  /\ \E r \in Omitted : r.url = <<>>
  /\ \E i, j \in 1..Len(Returned) :
       i < j /\ Returned[i].viral_score = Returned[j].viral_score

\* ====================================================== the session files
\* LocalFileManager: save_session_data, load_session_data, delete_session_data
\* over the directory analyses_data/sessions.  A name is a text; "session_" and
\* ".json" are written as one character each, a timestamp
\* ('%Y%m%d_%H%M%S', one per second) as "t" and a digit per second elapsed.
SessionIds == {<<"a">>, <<"a", "b">>, <<"c">>}
SessionData == {"d1", "d2"}

Timestamp(t) == <<"t">> \o [i \in 1..t |-> "1"]

\* line 53: f"session_{session_id}_{timestamp}.json"
FileName(session_id, t) ==
  <<"session_">> \o session_id \o <<"_">> \o Timestamp(t) \o <<".json">>

\* str.startswith and str.endswith
StartsWith(text, prefix) ==
  Len(prefix) <= Len(text) /\ SubSeq(text, 1, Len(prefix)) = prefix
EndsWith(text, suffix) ==
  Len(suffix) <= Len(text)
    /\ SubSeq(text, Len(text) - Len(suffix) + 1, Len(text)) = suffix

\* the test of lines 87 and 361
IsSessionFile(name, session_id) ==
  StartsWith(name, <<"session_">> \o session_id) /\ EndsWith(name, <<".json">>)

\* the files of the directory that pass it
SessionFilesOf(session_id) == {f \in session_files : IsSessionFile(f.name, session_id)}

\* the directory exists once _ensure_directory_structure has run (line 50)
SessionsDirExists == writes > 0

NoOp == [op |-> "none", session_id |-> <<>>, owners |-> {}, data |-> None, ok |-> FALSE]

NotFiles == <<genVars, keyVars, selVars, searchVars, raceVars, scoreVars, loadVars,
              formatVars, rankVars>>

\* save_session_data: open(file_path, 'w') replaces a file of the same name
SaveSessionData(session_id, data) ==
  /\ writes < MaxWrites
  /\ LET name == FileName(session_id, now) IN
       session_files' = {f \in session_files : f.name # name}
                          \cup {[name |-> name, session_id |-> session_id,
                                 data |-> data, mtime |-> writes + 1]}
  /\ writes' = writes + 1
  /\ last_op' = [op |-> "save", session_id |-> session_id, owners |-> {session_id},
                 data |-> None, ok |-> TRUE]
  /\ UNCHANGED <<NotFiles, now>>

\* load_session_data: the data of the most recently modified file that passes
\* the test, None when there is none
LoadSessionData(session_id) ==
  /\ LET found == IF SessionsDirExists THEN SessionFilesOf(session_id) ELSE {} IN
       IF found = {}
       THEN last_op' = [op |-> "load", session_id |-> session_id, owners |-> {},
                        data |-> None, ok |-> FALSE]
       ELSE LET most_recent_file == CHOOSE f \in found : \A g \in found : g.mtime <= f.mtime
            IN last_op' = [op |-> "load", session_id |-> session_id,
                           owners |-> {most_recent_file.session_id},
                           data |-> most_recent_file.data, ok |-> TRUE]
  /\ UNCHANGED <<NotFiles, session_files, now, writes>>

\* delete_session_data: os.remove of every file that passes the test
DeleteSessionData(session_id) ==
  /\ LET found == IF SessionsDirExists THEN SessionFilesOf(session_id) ELSE {} IN
       /\ session_files' = session_files \ found
       /\ last_op' = [op |-> "delete", session_id |-> session_id,
                      owners |-> {f.session_id : f \in found},
                      data |-> None, ok |-> found # {}]
  /\ UNCHANGED <<NotFiles, now, writes>>

\* a second passes
Tick ==
  /\ now < MaxClock
  /\ now' = now + 1
  /\ UNCHANGED <<NotFiles, session_files, writes, last_op>>

InitFiles ==
  /\ EarlierIdle
  /\ LoadIdle
  /\ FormatIdle
  /\ RankIdle
  /\ session_files = {}
  /\ now = 0
  /\ writes = 0
  /\ last_op = NoOp

NextFiles ==
  \/ \E session_id \in SessionIds, data \in SessionData : SaveSessionData(session_id, data)
  \/ \E session_id \in SessionIds : LoadSessionData(session_id)
  \/ \E session_id \in SessionIds : DeleteSessionData(session_id)
  \/ Tick

SpecFiles == InitFiles /\ [][NextFiles]_vars

\* C40: the session operations are isolated per session id: load_session_data(s)
\* returns only data saved under s itself and delete_session_data(s) removes
\* only files saved under s itself, also when one id is a prefix of another
C40_SessionsIsolated ==
  last_op.op \in {"load", "delete"} => last_op.owners \subseteq {last_op.session_id}
====
